---- MODULE Spec2Model ----
(***************************************************************************)
(* A model of the storage engine of the cmu-15-445 course database:        *)
(*   - the tuple-level lock manager (concurrency/lock_manager.{h,cpp}),    *)
(*   - the buffer pool manager and its LRU replacer (buffer/),             *)
(*   - the B+tree index and its leaf / internal pages (index/, page/),     *)
(*   - log recovery (logging/log_recovery.cpp).                            *)
(* Every component has its own variables and its own specification; a      *)
(* specification of one component leaves the other components' variables   *)
(* in their initial state.                                                 *)
(***************************************************************************)
EXTENDS Integers, Sequences, FiniteSets, TLC

(***************************************************************************)
(* Generic helpers                                                         *)
(***************************************************************************)
InsertAt(s, i, e) == SubSeq(s, 1, i - 1) \o <<e>> \o SubSeq(s, i, Len(s))

RemoveAt(s, i) == SubSeq(s, 1, i - 1) \o SubSeq(s, i + 1, Len(s))

SetMin(S) == CHOOSE x \in S : \A y \in S : x <= y

\* F applied to the value x: x is worked out once and named in F.
With(x, F(_)) == F(x)

(***************************************************************************)
(* LOCK MANAGER                                                            *)
(***************************************************************************)
\* Largest transaction id; transaction ids are 0..MaxTxn, a smaller id is older.
MaxTxn == 2

\* LockList::Remove resets oldest_ to this value before it rescans the list.
OldestReset == 10000000

Txns == 0..MaxTxn

\* The model follows one record id. The LockList of a rid is an object of its
\* own; requests on distinct rids meet only in the transaction's state.
Rids == {1}

VARIABLES
    strict_2PL_,          \* LockManager::strict_2PL_
    lock_table_,          \* rid -> LockList (present = the rid has an entry)
    txn_state,            \* Transaction::state_ of every transaction
    shared_lock_set,      \* Transaction::shared_lock_set_
    exclusive_lock_set,   \* Transaction::exclusive_lock_set_
    lk_pc,                \* "idle", or "wait": blocked inside cond.wait
    lk_req,               \* the request a blocked transaction waits for
    lk_notified,          \* the waiter has been woken and has not yet rechecked
    lk_unlocked,          \* rid -> transactions whose Unlock(rid) call has returned
    lk_last               \* the call that completed (or blocked) last

lockVars == <<strict_2PL_, lock_table_, txn_state, shared_lock_set,
              exclusive_lock_set, lk_pc, lk_req, lk_notified, lk_unlocked, lk_last>>

LockItem(id, mode, status) == [tid_ |-> id, mode_ |-> mode, held_ |-> status]

NoLockList == [present |-> FALSE, list_ |-> <<>>, oldest_ |-> 0]

\* LockList constructor
LockList(id, mode, status) ==
    [present |-> TRUE, list_ |-> <<LockItem(id, mode, status)>>, oldest_ |-> id]

GetOldest(ll) == ll.oldest_

\* Position at which LockList::Add inserts: before the first item that is not
\* held and has a larger tid; at the back when there is none.
AddPos(list, id) ==
    LET cand == {i \in 1..Len(list) : ~list[i].held_ /\ list[i].tid_ > id}
    IN  IF cand = {} THEN Len(list) + 1 ELSE SetMin(cand)

Add(ll, id, mode, status) ==
    [ll EXCEPT !.list_ = InsertAt(@, AddPos(@, id), LockItem(id, mode, status))]

Push_front(ll, id, mode, status) ==
    [ll EXCEPT !.list_ = <<LockItem(id, mode, status)>> \o @,
               !.oldest_ = IF id < @ THEN id ELSE @]

Find(ll, id) ==
    LET hit == {i \in 1..Len(ll.list_) : ll.list_[i].tid_ = id}
    IN  IF hit = {} THEN LockItem(-1, "SHARED", FALSE) ELSE ll.list_[SetMin(hit)]

\* list_.begin()->tid_ == id; on an empty list the read is of the list's
\* sentinel node and the answer is arbitrary (see Unlock).
IsFirst(ll, id) == Len(ll.list_) > 0 /\ ll.list_[1].tid_ = id

\* The minimum tid over the leading held items (the rescan of LockList::Remove).
RescanOldest(list) ==
    LET stop == {i \in 1..Len(list) : ~list[i].held_}
        n    == IF stop = {} THEN Len(list) ELSE SetMin(stop) - 1
        ids  == {list[i].tid_ : i \in 1..n} \cup {OldestReset}
    IN  SetMin(ids)

Remove(ll, id) ==
    LET hit  == {i \in 1..Len(ll.list_) : ll.list_[i].tid_ = id}
        list == IF hit = {} THEN ll.list_ ELSE RemoveAt(ll.list_, SetMin(hit))
    IN  [ll EXCEPT !.list_ = list,
                   !.oldest_ = IF id = @ THEN RescanOldest(list) ELSE @]

Hold(ll, id) ==
    LET hit == {i \in 1..Len(ll.list_) : ll.list_[i].tid_ = id /\ ~ll.list_[i].held_}
    IN  IF hit = {} THEN ll
        ELSE [ll EXCEPT !.list_[SetMin(hit)].held_ = TRUE]

\* The bug of granting a shared lock whatever the head of the queue is.
CanAddShardLock_AnyHead(ll) == TRUE

CanAddShardLock(ll) ==
    IF Len(ll.list_) = 0 THEN TRUE ELSE ll.list_[1].mode_ = "SHARED"

\* LockManager::IsValidToLock: the answer, and the state it leaves the txn in.
IsValidToLock(st) == st = "GROWING"

\* The bug of letting a SHRINKING transaction fail a lock call unaborted.
StateAfterValidCheck_Keep(st) == st

StateAfterValidCheck(st) == IF st = "SHRINKING" THEN "ABORTED" ELSE st

\* Transactions that currently hold rid r (held_ items), other than t.
Holders(r, t) ==
    {lock_table_[r].list_[i].tid_ :
        i \in {j \in 1..Len(lock_table_[r].list_) :
                 lock_table_[r].list_[j].held_ /\ lock_table_[r].list_[j].tid_ # t}}

XHolders(r, t) ==
    {lock_table_[r].list_[i].tid_ :
        i \in {j \in 1..Len(lock_table_[r].list_) :
                 /\ lock_table_[r].list_[j].held_
                 /\ lock_table_[r].list_[j].tid_ # t
                 /\ lock_table_[r].list_[j].mode_ = "EXCLUSIVE"}}

InList(r, t) == \E i \in 1..Len(lock_table_[r].list_) : lock_table_[r].list_[i].tid_ = t

Last(op, t, r, ret, pre, conflict, holders) ==
    [op |-> op, tid |-> t, rid |-> r, ret |-> ret, pre |-> pre,
     conflict |-> conflict, holders |-> holders]

InitLock ==
    /\ strict_2PL_ \in BOOLEAN
    /\ lock_table_ = [r \in Rids |-> NoLockList]
    /\ txn_state = [t \in Txns |-> "GROWING"]
    /\ shared_lock_set = [t \in Txns |-> {}]
    /\ exclusive_lock_set = [t \in Txns |-> {}]
    /\ lk_pc = [t \in Txns |-> "idle"]
    /\ lk_req = [t \in Txns |-> [rid |-> 0, mode |-> "SHARED"]]
    /\ lk_notified = [t \in Txns |-> FALSE]
    /\ lk_unlocked = [r \in Rids |-> {}]
    /\ lk_last = Last("none", 0, 0, "none", "GROWING", FALSE, {})

\* A lock call that fails IsValidToLock.
LockInvalid(op, t, r) ==
    /\ ~IsValidToLock(txn_state[t])
    /\ txn_state' = [txn_state EXCEPT ![t] = StateAfterValidCheck(@)]
    /\ lk_last' = Last(op, t, r, "false", txn_state[t], FALSE, {})
    /\ UNCHANGED <<strict_2PL_, lock_table_, shared_lock_set, exclusive_lock_set,
                   lk_pc, lk_req, lk_notified, lk_unlocked>>

\* The tail shared by the two blocking paths: enqueue an unheld request and
\* enter cond.wait, whose predicate is evaluated once before blocking.
EnqueueAndWait(op, t, r, mode, conflict, holders) ==
    LET ll == Add(lock_table_[r], t, mode, FALSE)
    IN  IF ll.list_[1].tid_ = t
        THEN /\ lock_table_' = [lock_table_ EXCEPT ![r] = Hold(ll, t)]
             /\ IF mode = "SHARED"
                THEN /\ shared_lock_set' = [shared_lock_set EXCEPT ![t] = @ \cup {r}]
                     /\ UNCHANGED exclusive_lock_set
                ELSE /\ exclusive_lock_set' = [exclusive_lock_set EXCEPT ![t] = @ \cup {r}]
                     /\ UNCHANGED shared_lock_set
             /\ lk_last' = Last(op, t, r, "true", txn_state[t], conflict, holders)
             /\ UNCHANGED <<strict_2PL_, txn_state, lk_pc, lk_req, lk_notified, lk_unlocked>>
        ELSE /\ lock_table_' = [lock_table_ EXCEPT ![r] = ll]
             /\ lk_pc' = [lk_pc EXCEPT ![t] = "wait"]
             /\ lk_req' = [lk_req EXCEPT ![t] = [rid |-> r, mode |-> mode]]
             /\ lk_notified' = [lk_notified EXCEPT ![t] = FALSE]
             /\ lk_last' = Last(op, t, r, "blocked", txn_state[t], conflict, holders)
             /\ UNCHANGED <<strict_2PL_, txn_state, shared_lock_set,
                            exclusive_lock_set, lk_unlocked>>

\* The wait-die abort of a lock call.
Die(op, t, r, conflict, holders) ==
    /\ txn_state' = [txn_state EXCEPT ![t] = "ABORTED"]
    /\ lk_last' = Last(op, t, r, "false", txn_state[t], conflict, holders)
    /\ UNCHANGED <<strict_2PL_, lock_table_, shared_lock_set, exclusive_lock_set,
                   lk_pc, lk_req, lk_notified, lk_unlocked>>

LockShared(t, r) ==
    /\ lk_pc[t] = "idle"
    /\ r \notin shared_lock_set[t] \cup exclusive_lock_set[t]
    /\ IF ~IsValidToLock(txn_state[t]) THEN LockInvalid("LockShared", t, r)
       ELSE LET conflict == XHolders(r, t) # {}
                holders  == Holders(r, t)
            IN  IF ~lock_table_[r].present
                THEN /\ lock_table_' = [lock_table_ EXCEPT ![r] = LockList(t, "SHARED", TRUE)]
                     /\ shared_lock_set' = [shared_lock_set EXCEPT ![t] = @ \cup {r}]
                     /\ lk_last' = Last("LockShared", t, r, "true", txn_state[t], conflict, holders)
                     /\ UNCHANGED <<strict_2PL_, txn_state, exclusive_lock_set, lk_pc,
                                    lk_req, lk_notified, lk_unlocked>>
                ELSE IF CanAddShardLock(lock_table_[r])
                THEN /\ lock_table_' = [lock_table_ EXCEPT ![r] = Push_front(@, t, "SHARED", TRUE)]
                     /\ shared_lock_set' = [shared_lock_set EXCEPT ![t] = @ \cup {r}]
                     /\ lk_last' = Last("LockShared", t, r, "true", txn_state[t], conflict, holders)
                     /\ UNCHANGED <<strict_2PL_, txn_state, exclusive_lock_set, lk_pc,
                                    lk_req, lk_notified, lk_unlocked>>
                ELSE IF t > GetOldest(lock_table_[r])
                THEN Die("LockShared", t, r, conflict, holders)
                ELSE EnqueueAndWait("LockShared", t, r, "SHARED", conflict, holders)

LockExclusive(t, r) ==
    /\ lk_pc[t] = "idle"
    /\ r \notin shared_lock_set[t] \cup exclusive_lock_set[t]
    /\ IF ~IsValidToLock(txn_state[t]) THEN LockInvalid("LockExclusive", t, r)
       ELSE LET conflict == Holders(r, t) # {}
                holders  == Holders(r, t)
            IN  IF ~lock_table_[r].present
                THEN /\ lock_table_' = [lock_table_ EXCEPT ![r] = LockList(t, "EXCLUSIVE", TRUE)]
                     /\ exclusive_lock_set' = [exclusive_lock_set EXCEPT ![t] = @ \cup {r}]
                     /\ lk_last' = Last("LockExclusive", t, r, "true", txn_state[t], conflict, holders)
                     /\ UNCHANGED <<strict_2PL_, txn_state, shared_lock_set, lk_pc,
                                    lk_req, lk_notified, lk_unlocked>>
                ELSE IF t > GetOldest(lock_table_[r])
                THEN Die("LockExclusive", t, r, conflict, holders)
                ELSE EnqueueAndWait("LockExclusive", t, r, "EXCLUSIVE", conflict, holders)

\* A blocked request rechecks the predicate of cond.wait after a wake-up.
Wake(t) ==
    /\ lk_pc[t] = "wait"
    /\ lk_notified[t]
    /\ LET r  == lk_req[t].rid
           ll == lock_table_[r]
       IN  IF Len(ll.list_) > 0 /\ ll.list_[1].tid_ = t
           THEN /\ lock_table_' = [lock_table_ EXCEPT ![r] = Hold(ll, t)]
                /\ IF lk_req[t].mode = "SHARED"
                   THEN /\ shared_lock_set' = [shared_lock_set EXCEPT ![t] = @ \cup {r}]
                        /\ UNCHANGED exclusive_lock_set
                   ELSE /\ exclusive_lock_set' = [exclusive_lock_set EXCEPT ![t] = @ \cup {r}]
                        /\ UNCHANGED shared_lock_set
                /\ lk_pc' = [lk_pc EXCEPT ![t] = "idle"]
                /\ lk_notified' = [lk_notified EXCEPT ![t] = FALSE]
                /\ lk_last' = Last("Wake", t, r, "true", txn_state[t], FALSE, {})
                /\ UNCHANGED <<strict_2PL_, txn_state, lk_req, lk_unlocked>>
           ELSE /\ lk_notified' = [lk_notified EXCEPT ![t] = FALSE]
                /\ lk_last' = Last("Wake", t, r, "blocked", txn_state[t], FALSE, {})
                /\ UNCHANGED <<strict_2PL_, lock_table_, txn_state, shared_lock_set,
                               exclusive_lock_set, lk_pc, lk_req, lk_unlocked>>

\* std::condition_variable may wake a waiter without a notification.
SpuriousWake(t) ==
    /\ lk_pc[t] = "wait"
    /\ ~lk_notified[t]
    /\ lk_notified' = [lk_notified EXCEPT ![t] = TRUE]
    /\ UNCHANGED <<strict_2PL_, lock_table_, txn_state, shared_lock_set,
                   exclusive_lock_set, lk_pc, lk_req, lk_unlocked, lk_last>>

LockUpgrade(t, r) ==
    /\ lk_pc[t] = "idle"
    /\ r \in shared_lock_set[t]
    /\ IF ~IsValidToLock(txn_state[t]) THEN LockInvalid("LockUpgrade", t, r)
       ELSE LET holders == Holders(r, t)
            IN  IF t > GetOldest(lock_table_[r])
                THEN Die("LockUpgrade", t, r, holders # {}, holders)
                ELSE /\ lock_table_' = [lock_table_ EXCEPT
                                          ![r] = Add(Remove(@, t), t, "EXCLUSIVE", FALSE)]
                     /\ lk_last' = Last("LockUpgrade", t, r, "true", txn_state[t],
                                        holders # {}, holders)
                     /\ UNCHANGED <<strict_2PL_, txn_state, shared_lock_set,
                                    exclusive_lock_set, lk_pc, lk_req, lk_notified,
                                    lk_unlocked>>

\* The bug of a strict Unlock that leaves a running transaction running.
StateAfterStrictUnlock_Keep(st) == st

\* Unlock under strict 2PL: a transaction that is neither ABORTED nor
\* COMMITTED becomes ABORTED.
StateAfterStrictUnlock(st) ==
    IF st \notin {"ABORTED", "COMMITTED"} THEN "ABORTED" ELSE st

\* cond.notify_all()
NotifyAll == [t \in Txns |-> IF lk_pc[t] = "wait" THEN TRUE ELSE lk_notified[t]]

Unlock(t, r) ==
    /\ lk_pc[t] = "idle"
    /\ r \in shared_lock_set[t] \cup exclusive_lock_set[t]
    /\ lk_unlocked' = [lk_unlocked EXCEPT ![r] = @ \cup {t}]
    /\ IF strict_2PL_
       THEN /\ txn_state' = [txn_state EXCEPT ![t] = StateAfterStrictUnlock(@)]
            /\ lk_last' = Last("Unlock", t, r, "false", txn_state[t], FALSE, {})
            /\ UNCHANGED <<strict_2PL_, lock_table_, shared_lock_set, exclusive_lock_set,
                           lk_pc, lk_req, lk_notified>>
       ELSE LET ll   == lock_table_[r]
                item == Find(ll, t)
            IN  /\ txn_state' = [txn_state EXCEPT
                                   ![t] = IF @ = "GROWING" THEN "SHRINKING" ELSE @]
                /\ IF item.mode_ = "SHARED"
                   THEN /\ shared_lock_set' = [shared_lock_set EXCEPT ![t] = @ \ {r}]
                        /\ UNCHANGED exclusive_lock_set
                   ELSE /\ exclusive_lock_set' = [exclusive_lock_set EXCEPT ![t] = @ \ {r}]
                        /\ UNCHANGED shared_lock_set
                /\ \E first \in IF Len(ll.list_) = 0 THEN BOOLEAN ELSE {IsFirst(ll, t)} :
                      lk_notified' = IF item.mode_ = "EXCLUSIVE" \/ first
                                     THEN NotifyAll ELSE lk_notified
                /\ lock_table_' = [lock_table_ EXCEPT ![r] = Remove(ll, t)]
                /\ lk_last' = Last("Unlock", t, r, "true", txn_state[t], FALSE, {})
                /\ UNCHANGED <<strict_2PL_, lk_pc, lk_req>>

\* TransactionManager::Commit marks the transaction COMMITTED before it
\* releases the locks.
TxnCommit(t) ==
    /\ lk_pc[t] = "idle"
    /\ txn_state[t] \in {"GROWING", "SHRINKING"}
    /\ txn_state' = [txn_state EXCEPT ![t] = "COMMITTED"]
    /\ lk_last' = Last("Commit", t, 0, "none", txn_state[t], FALSE, {})
    /\ UNCHANGED <<strict_2PL_, lock_table_, shared_lock_set, exclusive_lock_set,
                   lk_pc, lk_req, lk_notified, lk_unlocked>>


(***************************************************************************)
(* BUFFER POOL MANAGER and LRU REPLACER                                    *)
(***************************************************************************)
\* Number of frames of the pool (the constructor's pool_size).
PoolSize == 2

\* Largest page id the disk manager hands out.
MaxPageId == 3

\* Largest pin count a frame reaches.
MaxPin == 2

\* Largest LSN the log manager assigns.
MaxLsn == 1

INVALID_PAGE_ID == -1

Frames == 1..PoolSize

NoFrame == 0

PageIds == 1..MaxPageId

VARIABLES
    pages_,               \* frame -> Page (page_id_, pin_count_, is_dirty_, bytes)
    page_table_,          \* page id -> frame, NoFrame when absent
    replacer_,            \* LRUReplacer::lst, most recently inserted first
    free_list_,           \* BufferPoolManager::free_list_
    disk_pages,           \* DiskManager: the page images on disk
    disk_next_page_id,    \* DiskManager: the next id AllocatePage returns
    ENABLE_LOGGING,       \* the global logging switch, set before the pool is used
    next_lsn_,            \* LogManager::next_lsn_
    persistent_lsn_,      \* LogManager::persistent_lsn_
    persistent_lsn_changed_,  \* the flag ForceFlush spins on
    bpm_last,             \* the buffer pool call that completed last
    bpm_write             \* the disk write of that call, if it made one

bpmVars == <<pages_, page_table_, replacer_, free_list_, disk_pages,
             disk_next_page_id, ENABLE_LOGGING, next_lsn_,
             persistent_lsn_, persistent_lsn_changed_, bpm_last, bpm_write>>

\* The bytes of a page: its payload and the LSN stored in its header.
ZeroBytes == [data |-> 0, lsn |-> 0]

FreePage == [page_id_ |-> INVALID_PAGE_ID, pin_count_ |-> 0, is_dirty_ |-> FALSE,
             bytes |-> ZeroBytes]

NoWrite == [wrote |-> FALSE, page_id |-> INVALID_PAGE_ID, dirty |-> FALSE,
            data |-> 0, lsn |-> 0, persistent |-> 0, logging |-> FALSE]

DiskWrite(f) ==
    [wrote |-> TRUE, page_id |-> pages_[f].page_id_, dirty |-> pages_[f].is_dirty_,
     data |-> pages_[f].bytes.data, lsn |-> pages_[f].bytes.lsn,
     persistent |-> persistent_lsn_,
     logging |-> ENABLE_LOGGING]

\* ret is the frame of the returned page (NoFrame for nullptr) or, for the
\* boolean calls, 1 for true and 0 for false; deallocated records a call of
\* DiskManager::DeallocatePage.
BpmLast(op, p, ret) == [op |-> op, page_id |-> p, ret |-> ret, deallocated |-> FALSE]

\* LRUReplacer::Insert
ReplacerInsert(lst, f) == <<f>> \o SelectSeq(lst, LAMBDA x : x # f)

\* LRUReplacer::Erase
ReplacerErase_Skip(lst, f) == lst

ReplacerErase(lst, f) == SelectSeq(lst, LAMBDA x : x # f)

\* LRUReplacer::Victim: the value at the back of the list.
ReplacerVictim_Front(lst) == lst[1]

ReplacerVictim(lst) == lst[Len(lst)]

\* The bug of tracking a frame in the replacer on every unpin.
UnpinReplacer_Always(lst, f, pin) == ReplacerInsert(lst, f)

\* UnpinPage: the frame enters the replacer when its pin count reaches 0.
UnpinReplacer(lst, f, pin) == IF pin = 0 THEN ReplacerInsert(lst, f) ELSE lst

Resident(p) == p \in PageIds /\ page_table_[p] # NoFrame

InitBPM ==
    /\ pages_ = [f \in Frames |-> FreePage]
    /\ page_table_ = [p \in PageIds |-> NoFrame]
    /\ replacer_ = <<>>
    /\ free_list_ = [i \in 1..PoolSize |-> i]
    /\ disk_pages = [p \in PageIds |-> ZeroBytes]
    /\ disk_next_page_id = 1
    /\ ENABLE_LOGGING \in BOOLEAN
    /\ next_lsn_ = 0
    /\ persistent_lsn_ = -1
    /\ persistent_lsn_changed_ = FALSE
    /\ bpm_last = BpmLast("none", INVALID_PAGE_ID, NoFrame)
    /\ bpm_write = NoWrite

logVarsOfBPM == <<ENABLE_LOGGING, next_lsn_, persistent_lsn_, persistent_lsn_changed_>>

\* A call that fails and changes nothing.
BpmFail(op, p) ==
    /\ bpm_last' = BpmLast(op, p, NoFrame)
    /\ bpm_write' = NoWrite
    /\ UNCHANGED <<pages_, page_table_, replacer_, free_list_, disk_pages,
                   disk_next_page_id, logVarsOfBPM>>

FetchPage(p) ==
    IF p = INVALID_PAGE_ID THEN BpmFail("FetchPage", p)
    ELSE IF Resident(p)
    THEN LET f == page_table_[p]
         IN  /\ pages_[f].pin_count_ < MaxPin
             /\ replacer_' = ReplacerErase(replacer_, f)
             /\ pages_' = [pages_ EXCEPT ![f].pin_count_ = @ + 1]
             /\ bpm_last' = BpmLast("FetchPage", p, f)
             /\ bpm_write' = NoWrite
             /\ UNCHANGED <<page_table_, free_list_, disk_pages, disk_next_page_id,
                            logVarsOfBPM>>
    ELSE IF free_list_ # <<>>
    THEN LET f == Head(free_list_)
         IN  /\ free_list_' = Tail(free_list_)
             /\ pages_' = [pages_ EXCEPT ![f] = [page_id_ |-> p, pin_count_ |-> @.pin_count_ + 1,
                                                 is_dirty_ |-> @.is_dirty_,
                                                 bytes |-> disk_pages[p]]]
             /\ page_table_' = [page_table_ EXCEPT ![p] = f]
             /\ bpm_last' = BpmLast("FetchPage", p, f)
             /\ bpm_write' = NoWrite
             /\ UNCHANGED <<replacer_, disk_pages, disk_next_page_id,
                            logVarsOfBPM>>
    ELSE IF replacer_ = <<>> THEN BpmFail("FetchPage", p)
    ELSE LET f   == ReplacerVictim(replacer_)
             old == pages_[f].page_id_
             dsk == IF pages_[f].is_dirty_
                    THEN [disk_pages EXCEPT ![old] = pages_[f].bytes]
                    ELSE disk_pages
         IN  /\ replacer_' = SubSeq(replacer_, 1, Len(replacer_) - 1)
             \* a dirty victim is written back; the branch that should force
             \* the log first has an empty body
             /\ bpm_write' = IF pages_[f].is_dirty_ THEN DiskWrite(f) ELSE NoWrite
             /\ disk_pages' = dsk
             /\ page_table_' = [page_table_ EXCEPT ![old] = NoFrame, ![p] = f]
             /\ pages_' = [pages_ EXCEPT ![f] = [page_id_ |-> p, pin_count_ |-> @.pin_count_ + 1,
                                                 is_dirty_ |-> FALSE,
                                                 bytes |-> dsk[p]]]
             /\ bpm_last' = BpmLast("FetchPage", p, f)
             /\ UNCHANGED <<free_list_, disk_next_page_id, logVarsOfBPM>>

\* The bug of storing the argument in the dirty bit.
DirtyAfterUnpin_Assign(was_dirty, is_dirty) == is_dirty

\* Lines 120-122: the dirty bit is set when is_dirty is true, and kept otherwise.
DirtyAfterUnpin(was_dirty, is_dirty) == IF is_dirty THEN TRUE ELSE was_dirty

UnpinPage(p, is_dirty) ==
    IF ~Resident(p) THEN BpmFail("UnpinPage", p)
    ELSE LET f == page_table_[p]
         IN  /\ pages_[f].pin_count_ > 0
             /\ pages_' = [pages_ EXCEPT ![f].pin_count_ = @ - 1,
                                         ![f].is_dirty_ = DirtyAfterUnpin(@, is_dirty)]
             /\ replacer_' = UnpinReplacer(replacer_, f, pages_[f].pin_count_ - 1)
             /\ bpm_last' = BpmLast("UnpinPage", p, f)
             /\ bpm_write' = NoWrite
             /\ UNCHANGED <<page_table_, free_list_, disk_pages, disk_next_page_id,
                            logVarsOfBPM>>

FlushPage(p) ==
    IF ~Resident(p) THEN BpmFail("FlushPage", p)
    ELSE LET f == page_table_[p]
         IN  /\ disk_pages' = [disk_pages EXCEPT ![p] = pages_[f].bytes]
             /\ bpm_write' = DiskWrite(f)
             /\ pages_' = [pages_ EXCEPT ![f].is_dirty_ = FALSE]
             /\ bpm_last' = BpmLast("FlushPage", p, f)
             /\ UNCHANGED <<page_table_, replacer_, free_list_, disk_next_page_id,
                            logVarsOfBPM>>

\* The bug of deleting a page whatever its pin count.
DeleteRefused_Never(f) == FALSE

\* Lines 161-163: a page found in the table with pin count other than 0 is
\* not deleted.
DeleteRefused(f) == pages_[f].pin_count_ # 0

DeletePage(p) ==
    IF Resident(p) /\ DeleteRefused(page_table_[p]) THEN BpmFail("DeletePage", p)
    ELSE /\ IF Resident(p)
            THEN LET f == page_table_[p]
                 IN  /\ replacer_' = ReplacerErase(replacer_, f)
                     /\ free_list_' = Append(free_list_, f)
                     /\ page_table_' = [page_table_ EXCEPT ![p] = NoFrame]
                     /\ pages_' = [pages_ EXCEPT ![f] = FreePage]
            ELSE UNCHANGED <<replacer_, free_list_, page_table_, pages_>>
         /\ bpm_last' = [BpmLast("DeletePage", p, 1) EXCEPT !.deallocated = TRUE]
         /\ bpm_write' = NoWrite
         /\ UNCHANGED <<disk_pages, disk_next_page_id, logVarsOfBPM>>

\* The new frame of NewPage: zeroed, dirty, pinned, under a fresh page id.
NewPageInstall(f) ==
    /\ disk_next_page_id <= MaxPageId
    /\ disk_next_page_id' = disk_next_page_id + 1
    /\ pages_' = [pages_ EXCEPT ![f] = [page_id_ |-> disk_next_page_id,
                                        pin_count_ |-> @.pin_count_ + 1,
                                        is_dirty_ |-> TRUE, bytes |-> ZeroBytes]]
    /\ bpm_last' = BpmLast("NewPage", disk_next_page_id, f)

\* LogManager::ForceFlush as the buffer pool sees it: it returns once
\* persistent_lsn_changed_ is set. The flusher sets the flag after a flush;
\* a flag left over from an earlier flush ends the wait at once.
ForceFlushOutcome ==
    /\ \/ persistent_lsn_' = next_lsn_ - 1
       \/ persistent_lsn_changed_ /\ persistent_lsn_' = persistent_lsn_
    /\ persistent_lsn_changed_' = FALSE

NewPage ==
    IF free_list_ # <<>>
    THEN LET f == Head(free_list_)
         IN  /\ free_list_' = Tail(free_list_)
             /\ NewPageInstall(f)
             /\ page_table_' = [page_table_ EXCEPT ![disk_next_page_id] = f]
             /\ bpm_write' = NoWrite
             /\ UNCHANGED <<replacer_, disk_pages, logVarsOfBPM>>
    ELSE IF replacer_ = <<>> THEN BpmFail("NewPage", INVALID_PAGE_ID)
    ELSE LET f   == ReplacerVictim(replacer_)
             old == pages_[f].page_id_
         IN  /\ replacer_' = SubSeq(replacer_, 1, Len(replacer_) - 1)
             /\ IF pages_[f].is_dirty_ /\ ENABLE_LOGGING /\ pages_[f].bytes.lsn > persistent_lsn_
                THEN ForceFlushOutcome
                ELSE UNCHANGED <<persistent_lsn_, persistent_lsn_changed_>>
             /\ bpm_write' = IF pages_[f].is_dirty_
                             THEN [DiskWrite(f) EXCEPT !.persistent = persistent_lsn_']
                             ELSE NoWrite
             /\ disk_pages' = IF pages_[f].is_dirty_
                              THEN [disk_pages EXCEPT ![old] = pages_[f].bytes]
                              ELSE disk_pages
             /\ NewPageInstall(f)
             /\ page_table_' = [page_table_ EXCEPT ![old] = NoFrame,
                                                   ![disk_next_page_id] = f]
             /\ UNCHANGED <<free_list_, ENABLE_LOGGING, next_lsn_>>

\* A client that holds a pin on page p changes the page; with logging on it
\* appends a log record first and stamps the page with the record's LSN.
WritePageData(p) ==
    /\ Resident(p)
    /\ pages_[page_table_[p]].pin_count_ > 0
    /\ LET f == page_table_[p]
       IN  IF ENABLE_LOGGING
           THEN /\ next_lsn_ <= MaxLsn
                /\ next_lsn_' = next_lsn_ + 1
                /\ pages_' = [pages_ EXCEPT ![f].bytes = [data |-> 1, lsn |-> next_lsn_]]
           ELSE /\ pages_[f].bytes.data = 0
                /\ pages_' = [pages_ EXCEPT ![f].bytes.data = 1]
                /\ UNCHANGED next_lsn_
    /\ bpm_last' = BpmLast("WritePageData", p, page_table_[p])
    /\ bpm_write' = NoWrite
    /\ UNCHANGED <<page_table_, replacer_, free_list_, disk_pages, disk_next_page_id,
                   ENABLE_LOGGING, persistent_lsn_,
                   persistent_lsn_changed_>>

\* One round of the flush thread: the log up to next_lsn_ - 1 becomes persistent.
FlushLogRound ==
    /\ ENABLE_LOGGING
    /\ persistent_lsn_ # next_lsn_ - 1 \/ ~persistent_lsn_changed_
    /\ persistent_lsn_' = next_lsn_ - 1
    /\ persistent_lsn_changed_' = TRUE
    /\ UNCHANGED <<pages_, page_table_, replacer_, free_list_, disk_pages,
                   disk_next_page_id, ENABLE_LOGGING, next_lsn_,
                   bpm_last, bpm_write>>

(***************************************************************************)
(* B+TREE INDEX                                                            *)
(* One thread runs Insert, Remove and GetValue to completion, one call     *)
(* after another, with one Transaction object. The buffer pool is taken    *)
(* large enough that no tree page is evicted and no frame is reused, so a  *)
(* page is known by its page id; pin counts and latches are kept per page. *)
(***************************************************************************)
\* Keys 1..MaxKey are inserted, removed and looked up.
MaxKey == 6

\* Values 1..MaxVal are stored.
MaxVal == 1

\* max_size of a leaf page and of an internal page.
LeafMaxSize == 3

InternalMaxSize == 4

\* Largest page id given to a tree page by a call that is followed.
MaxBtPage == 9

\* Pages one call can create past MaxBtPage before its end is looked at.
MaxNewPages == 3

Keys == 1..MaxKey

Vals == 1..MaxVal

BtPageIds == 1..(MaxBtPage + MaxNewPages)

VARIABLES
    root_page_id_,   \* BPlusTree::root_page_id_
    bt_pages,        \* page id -> the B+tree node stored in the page
    bt_pin,          \* page id -> pin count of the page
    bt_wlatch,       \* page id -> the page's write latch is held
    bt_root_latch,   \* the root latch (LockRoot / UnlockRoot) is held
    bt_page_set,     \* Transaction::GetPageSet()
    bt_next_page_id, \* next id of DiskManager::AllocatePage
    bt_header,       \* root id recorded in the header page, -2 when no record
    bt_status,       \* "ok", or "hang" / "crash" once a call did not return
    bt_map,          \* the map the calls so far describe (0: key absent)
    bt_last          \* the call that was made last and what it returned

treeVars == <<root_page_id_, bt_pages, bt_pin, bt_wlatch, bt_root_latch, bt_page_set,
              bt_next_page_id, bt_header, bt_status, bt_map, bt_last>>

NoRecord == -2

\* An array slot of a page: key and value (a stored value or a child page id).
Pair(k, v) == [first |-> k, second |-> v]

\* A page that holds no node.
NoNode == [page_type |-> "INVALID", parent_page_id_ |-> INVALID_PAGE_ID,
           next_page_id_ |-> INVALID_PAGE_ID, array |-> <<>>]

\* BPlusTreePage::GetSize
GetSize(node) == Len(node.array)

\* BPlusTreePage::GetMaxSize
GetMaxSize(node) == IF node.page_type = "LEAF" THEN LeafMaxSize ELSE InternalMaxSize

\* BPlusTreePage::GetMinSize: the ceiling of max_size / 2.
GetMinSize(node) == (GetMaxSize(node) + 1) \div 2

\* BPlusTreePage::IsRootPage
IsRootPage(node) == node.parent_page_id_ = INVALID_PAGE_ID

\* BPlusTreeLeafPage::Init
LeafInit(parent_id) ==
    [page_type |-> "LEAF", parent_page_id_ |-> parent_id,
     next_page_id_ |-> INVALID_PAGE_ID, array |-> <<>>]

\* BPlusTreeInternalPage::Init: size 1, slot 0 is the zeroed memory of the page.
InternalInit(parent_id) ==
    [page_type |-> "INTERNAL", parent_page_id_ |-> parent_id,
     next_page_id_ |-> INVALID_PAGE_ID, array |-> <<Pair(0, 0)>>]

\* The binary search of BPlusTreeLeafPage::KeyIndex on [begin, end); indices
\* are those of the code, slot i of the code is array[i + 1] here.
RECURSIVE KeyIndexLoop(_, _, _, _)
KeyIndexLoop(array, key, begin, end) ==
    IF begin < end
    THEN LET mid == (begin + end) \div 2
         IN  IF array[mid + 1].first < key
             THEN KeyIndexLoop(array, key, mid + 1, end)
             ELSE KeyIndexLoop(array, key, begin, mid)
    ELSE begin

KeyIndex(array, key) == KeyIndexLoop(array, key, 0, Len(array))

\* BPlusTreeLeafPage::Insert
LeafInsert(array, key, value) ==
    LET size == Len(array)
    IN  IF size = 0 \/ key > array[size].first
        THEN Append(array, Pair(key, value))
        ELSE IF key < array[1].first
        THEN <<Pair(key, value)>> \o array
        ELSE InsertAt(array, KeyIndex(array, key) + 1, Pair(key, value))

\* BPlusTreeLeafPage::Lookup: found, and the value when found.
LeafLookup(array, key) ==
    LET size == Len(array)
    IN  IF size = 0 \/ key < array[1].first \/ key > array[size].first
        THEN [found |-> FALSE, value |-> 0]
        ELSE LET key_index == KeyIndex(array, key)
             IN  IF array[key_index + 1].first = key
                 THEN [found |-> TRUE, value |-> array[key_index + 1].second]
                 ELSE [found |-> FALSE, value |-> 0]

\* BPlusTreeLeafPage::RemoveAndDeleteRecord: the array afterwards.
RemoveAndDeleteRecord(array, key) ==
    LET size == Len(array)
    IN  IF size = 0 \/ key < array[1].first \/ key > array[size].first
        THEN array
        ELSE LET key_index == KeyIndex(array, key)
             IN  IF array[key_index + 1].first = key
                 THEN RemoveAt(array, key_index + 1)
                 ELSE array

\* BPlusTreeInternalPage::ValueIndex (index of the code, from 0)
ValueIndex(array, value) ==
    IF \E i \in 1..Len(array) : array[i].second = value
    THEN SetMin({i \in 1..Len(array) : array[i].second = value}) - 1
    ELSE Len(array) - 1

\* The scan of BPlusTreeInternalPage::Lookup from slot i.
RECURSIVE InternalLookupLoop(_, _, _)
InternalLookupLoop(array, key, i) ==
    IF i < Len(array)
    THEN IF key < array[i + 1].first
         THEN array[i].second
         ELSE InternalLookupLoop(array, key, i + 1)
    ELSE array[Len(array)].second

\* BPlusTreeInternalPage::Lookup. A page of size 1 has a stale slot 1; the
\* result is slot 0's child whatever that slot holds.
InternalLookup(array, key) ==
    IF Len(array) = 1 THEN array[1].second
    ELSE IF key < array[2].first THEN array[1].second
    ELSE IF key > array[Len(array)].first THEN array[Len(array)].second
    ELSE InternalLookupLoop(array, key, 1)

\* BPlusTreeInternalPage::InsertNodeAfter
InsertNodeAfter(array, old_value, new_key, new_value) ==
    InsertAt(array, ValueIndex(array, old_value) + 2, Pair(new_key, new_value))

\* The number of entries MoveHalfTo moves to the new page.
HalfOf(size) == (size + 1) \div 2

\* The state a B+tree call works on, threaded through its steps: pages,
\* pin counts, write latches, root latch, page set, root page id, next page
\* id, header record and whether the call is still running ("ok").
Store ==
    [pg |-> bt_pages, pin |-> bt_pin, wl |-> bt_wlatch, rl |-> bt_root_latch,
     ps |-> bt_page_set, root |-> root_page_id_, next |-> bt_next_page_id,
     hdr |-> bt_header, st |-> "ok"]

\* BufferPoolManager::FetchPage of a resident page: one more pin.
BpFetchPage(s, p) == [s EXCEPT !.pin[p] = @ + 1]

\* BufferPoolManager::UnpinPage: false for a page that is not resident; the
\* assertion pin_count_ > 0 ends the call otherwise.
BpUnpinPage(s, p) ==
    IF s.pg[p].page_type = "INVALID" THEN s
    ELSE IF s.pin[p] = 0 THEN [s EXCEPT !.st = "crash"]
    ELSE [s EXCEPT !.pin[p] = @ - 1]

\* BufferPoolManager::DeletePage: refused while the page is pinned.
BpDeletePage(s, p) ==
    IF s.pg[p].page_type # "INVALID" /\ s.pin[p] # 0 THEN s
    ELSE [s EXCEPT !.pg[p] = NoNode]

\* BufferPoolManager::NewPage followed by Init of the node: the page s.next.
BpNewPage(s, node) ==
    [s EXCEPT !.pg[s.next] = node, !.pin[s.next] = 1, !.next = @ + 1]

SetParentPageId(s, p, parent) == [s EXCEPT !.pg[p].parent_page_id_ = parent]

\* Page::WLatch: a latch that is already held is never obtained.
WLatch(s, p) == IF s.wl[p] THEN [s EXCEPT !.st = "hang"] ELSE [s EXCEPT !.wl[p] = TRUE]

\* Page::RLatch: blocks while the write latch is held.
RLatch(s, p) == IF s.wl[p] THEN [s EXCEPT !.st = "hang"] ELSE s

WUnlatch(s, p) == [s EXCEPT !.wl[p] = FALSE]

\* BPlusTree::LockRoot / UnlockRoot
LockRoot(s) == IF s.rl THEN [s EXCEPT !.st = "hang"] ELSE [s EXCEPT !.rl = TRUE]

UnlockRoot(s) == [s EXCEPT !.rl = FALSE]

\* BPlusTree::LockPage
LockPage(s, page, txn, op) ==
    With(IF op = "SEARCH" THEN RLatch(s, page) ELSE WLatch(s, page), LAMBDA l :
         IF l.st = "ok" /\ txn THEN [l EXCEPT !.ps = Append(@, page)] ELSE l)

\* One round of the loop of UnlockParentPage: the front page is released.
UnlatchFront(s, op) ==
    IF op = "SEARCH" THEN s
    ELSE IF Head(s.ps) = s.root THEN UnlockRoot(WUnlatch(s, Head(s.ps)))
    ELSE WUnlatch(s, Head(s.ps))

\* BPlusTree::UnlockParentPage: release and pop the pages in front of page;
\* front() of a page set that ran empty ends the call.
RECURSIVE UnlockParentPage(_, _, _)
UnlockParentPage(s, page, op) ==
    IF s.ps = <<>> THEN s
    ELSE IF Head(s.ps) = page THEN s
    ELSE IF Len(s.ps) = 1 THEN [UnlatchFront(s, op) EXCEPT !.ps = <<>>, !.st = "crash"]
    ELSE UnlockParentPage([UnlatchFront(s, op) EXCEPT !.ps = Tail(@)], page, op)

\* The test of FindLeafPage for releasing the ancestors, on the parent.
SafeToUnlock(internal, op) ==
    \/ op = "SEARCH"
    \/ op = "INSERT" /\ GetSize(internal) < GetMaxSize(internal)
    \/ op = "DELETE" /\ GetSize(internal) > GetMinSize(internal)

\* The loop of BPlusTree::FindLeafPage, at the latched page.
RECURSIVE FindLeafLoop(_, _, _, _, _)
FindLeafLoop(s, page, key, txn, op) ==
    IF s.st # "ok" \/ s.pg[page].page_type # "INTERNAL" THEN [s |-> s, leaf |-> page]
    ELSE With(InternalLookup(s.pg[page].array, key), LAMBDA child :
         With(LockPage(BpFetchPage(s, child), child, txn, op), LAMBDA s1 :
         With(IF s1.st = "ok" /\ txn /\ SafeToUnlock(s.pg[page], op)
              THEN UnlockParentPage(s1, child, op) ELSE s1, LAMBDA s2 :
         FindLeafLoop(IF s2.st = "ok" THEN BpUnpinPage(s2, page) ELSE s2,
                      child, key, txn, op))))

\* BPlusTree::FindLeafPage (leftMost = false): the store afterwards and the
\* leaf, INVALID_PAGE_ID for the nullptr of an empty tree.
FindLeafPage(s, key, txn, op) ==
    IF s.root = INVALID_PAGE_ID THEN [s |-> s, leaf |-> INVALID_PAGE_ID]
    ELSE With(IF op # "SEARCH" THEN LockRoot(s) ELSE s, LAMBDA s1 :
         FindLeafLoop(IF s1.st = "ok"
                      THEN LockPage(BpFetchPage(s1, s1.root), s1.root, txn, op) ELSE s1,
                      s.root, key, txn, op))

\* BPlusTree::UpdateRootPageId: HeaderPage::InsertRecord adds the record when
\* the index has none, HeaderPage::UpdateRecord changes an existing one.
UpdateRootPageId(s, insert_record) ==
    IF insert_record
    THEN IF s.hdr = NoRecord THEN [s EXCEPT !.hdr = s.root] ELSE s
    ELSE IF s.hdr = NoRecord THEN s ELSE [s EXCEPT !.hdr = s.root]

\* BPlusTree::StartNewTree
StartNewTree(s, key, value) ==
    LET id == s.next
        s1 == [BpNewPage(s, NoNode) EXCEPT !.root = id]
        s2 == [WLatch(s1, id) EXCEPT !.ps = Append(@, id)]
        s3 == UpdateRootPageId(s2, TRUE)
        s4 == [s3 EXCEPT !.pg[id] = [LeafInit(INVALID_PAGE_ID) EXCEPT
                                        !.array = LeafInsert(<<>>, key, value)]]
        s5 == [WUnlatch(s4, id) EXCEPT !.ps = SubSeq(@, 1, Len(@) - 1)]
    IN  BpUnpinPage(s5, id)

\* The upper half of a leaf moves to a fresh leaf (Split<leaf> with
\* BPlusTreeLeafPage::MoveHalfTo): the store and the id of the new leaf.
SplitLeaf(s, p) ==
    LET node == s.pg[p]
        size == HalfOf(GetSize(node))
        keep == GetSize(node) - size
        id   == s.next
        new_node == [LeafInit(INVALID_PAGE_ID) EXCEPT
                        !.array = SubSeq(node.array, keep + 1, GetSize(node))]
        s1 == BpNewPage(s, new_node)
    IN  [s |-> [s1 EXCEPT !.pg[p].array = SubSeq(node.array, 1, keep)], new |-> id]

Reparent_Skip(s, array, from, to, parent) == s

\* The children in slots from..to of array get parent as their parent page
\* (fetch, SetParentPageId, unpin for each).
RECURSIVE Reparent(_, _, _, _, _)
Reparent(s, array, from, to, parent) ==
    IF from > to THEN s
    ELSE LET c == array[from].second
         IN  Reparent(BpUnpinPage(SetParentPageId(BpFetchPage(s, c), c, parent), c),
                      array, from + 1, to, parent)

\* Split<internal> with BPlusTreeInternalPage::MoveHalfTo / CopyHalfFrom.
SplitInternal(s, p) ==
    LET node == s.pg[p]
        half == HalfOf(GetSize(node))
        keep == GetSize(node) - half
        id   == s.next
        new_node == [InternalInit(INVALID_PAGE_ID) EXCEPT
                        !.array = SubSeq(node.array, keep + 1, GetSize(node))]
        s1 == BpNewPage(s, new_node)
        s2 == Reparent(s1, node.array, keep + 1, GetSize(node), id)
    IN  [s |-> [s2 EXCEPT !.pg[p].array = SubSeq(node.array, 1, keep)], new |-> id]

\* The root split of InsertIntoParent: a fresh root page id over old_node and
\* new_node.
PopulateNewRoot(s, id, old_node, key, new_node) ==
    LET s1 == [BpNewPage(s, NoNode) EXCEPT !.root = id]
        s2 == [WLatch(s1, id) EXCEPT !.ps = Append(@, id)]
        new_root == [InternalInit(INVALID_PAGE_ID) EXCEPT
                        !.array = <<Pair(0, old_node), Pair(key, new_node)>>]
        s3 == [s2 EXCEPT !.pg[id] = new_root]
        s4 == SetParentPageId(SetParentPageId(s3, old_node, id), new_node, id)
        s5 == UpdateRootPageId(s4, FALSE)
        s6 == [UnlockRoot(WUnlatch(s5, id)) EXCEPT !.ps = SubSeq(@, 1, Len(@) - 1)]
    IN  BpUnpinPage(BpUnpinPage(BpUnpinPage(s6, old_node), new_node), id)

\* The pair (key, new_node) goes after old_node into the page target, which
\* becomes the parent of new_node; new_node and old_node are unpinned.
InsertIntoTarget(s, target, old_node, key, new_node) ==
    BpUnpinPage(BpUnpinPage(
        SetParentPageId([s EXCEPT !.pg[target].array =
                            InsertNodeAfter(@, old_node, key, new_node)],
                        new_node, target),
        new_node), old_node)

\* BPlusTree::InsertIntoParent. The recursive call hands on the caller's
\* transaction.
RECURSIVE InsertIntoParent(_, _, _, _)
InsertIntoParent(s, old_node, key, new_node) ==
    IF IsRootPage(s.pg[old_node])
    THEN PopulateNewRoot(s, s.next, old_node, key, new_node)
    ELSE With(s.pg[old_node].parent_page_id_, LAMBDA par :
         With(BpFetchPage(s, par), LAMBDA s1 :
         IF GetSize(s1.pg[par]) < GetMaxSize(s1.pg[par])
         THEN BpUnpinPage(BpUnpinPage(BpUnpinPage(
                  SetParentPageId([s1 EXCEPT !.pg[par].array =
                                      InsertNodeAfter(@, old_node, key, new_node)],
                                  new_node, par),
                  par), new_node), old_node)
         ELSE With(SplitInternal(s1, par), LAMBDA sp :
              With(SetParentPageId(sp.s, sp.new, s1.pg[par].parent_page_id_), LAMBDA s2 :
              With(s2.pg[sp.new].array[1].first, LAMBDA mid_one :
              InsertIntoParent(
                  InsertIntoTarget(s2, IF key < mid_one THEN par ELSE sp.new,
                                   old_node, key, new_node),
                  par, mid_one, sp.new))))))

\* The release at the end of InsertIntoLeaf when no split happened: WUnlatch
\* of the leaf, UnlockRoot when the leaf is the root, pop_front, UnpinPage.
ReleaseLeaf(s, leaf) ==
    LET s1 == WUnlatch(s, leaf)
        s2 == IF leaf = s1.root THEN UnlockRoot(s1) ELSE s1
        s3 == [s2 EXCEPT !.ps = Tail(@)]
    IN  BpUnpinPage(s3, leaf)

LinkLeaves_NoLink(s, leaf, new_leaf) == s

\* The next pointers after a leaf split: new_leaf takes over the successor of
\* leaf and follows leaf.
LinkLeaves(s, leaf, new_leaf) ==
    [s EXCEPT !.pg[new_leaf].next_page_id_ = s.pg[leaf].next_page_id_,
              !.pg[leaf].next_page_id_ = new_leaf]

\* The end of InsertIntoLeaf after a split: the ancestors in front of the leaf
\* are released, then the leaf.
ReleaseAfterSplit(s, leaf) ==
    [WUnlatch(UnlockParentPage(s, leaf, "INSERT"), leaf) EXCEPT !.ps = Tail(@)]

\* The split branch of InsertIntoLeaf, after Split gave the leaf new_leaf.
InsertAfterSplit(s, leaf, new_leaf, middle_one, key, value) ==
    ReleaseAfterSplit(
        InsertIntoParent(
            LinkLeaves([s EXCEPT !.pg[IF key < middle_one THEN leaf ELSE new_leaf].array =
                           LeafInsert(@, key, value)],
                       leaf, new_leaf),
            leaf, middle_one, new_leaf),
        leaf)

\* InsertIntoLeaf once FindLeafPage returned the latched leaf in store s.
InsertAtLeaf(s, leaf, key, value) ==
    IF s.st # "ok" THEN [s |-> s, ret |-> "none"]
    ELSE IF LeafLookup(s.pg[leaf].array, key).found
    THEN [s |-> ReleaseLeaf(s, leaf), ret |-> "false"]
    ELSE IF GetSize(s.pg[leaf]) < GetMaxSize(s.pg[leaf])
    THEN [s |-> ReleaseLeaf([s EXCEPT !.pg[leaf].array = LeafInsert(@, key, value)], leaf),
          ret |-> "true"]
    ELSE With(SplitLeaf(s, leaf), LAMBDA sp :
         [s |-> InsertAfterSplit(sp.s, leaf, sp.new, sp.s.pg[sp.new].array[1].first,
                                 key, value),
          ret |-> "true"])

\* BPlusTree::InsertIntoLeaf: the store afterwards and the return value.
InsertIntoLeaf(s, key, value) ==
    With(FindLeafPage(s, key, TRUE, "INSERT"), LAMBDA f :
         InsertAtLeaf(f.s, f.leaf, key, value))

\* BPlusTree::Insert. The lock_guard on root_mutex_ around the IsEmpty test is
\* taken and dropped inside the test and is a mutex of its own.
TreeInsert(s, key, value) ==
    IF s.root = INVALID_PAGE_ID
    THEN [s |-> StartNewTree(s, key, value), ret |-> "true"]
    ELSE InsertIntoLeaf(s, key, value)

\* BPlusTree::GetValue: the store afterwards, the return value and the value
\* pushed to the result.
TreeGetValue(s, key, txn) ==
    IF s.root = INVALID_PAGE_ID THEN [s |-> s, ret |-> "false", value |-> 0]
    ELSE LET f == FindLeafPage(s, key, txn, "SEARCH")
             l == LeafLookup(f.s.pg[f.leaf].array, key)
             s1 == IF txn THEN [f.s EXCEPT !.ps = Tail(@)] ELSE f.s
         IN  IF f.s.st # "ok" THEN [s |-> f.s, ret |-> "none", value |-> 0]
             ELSE [s |-> BpUnpinPage(s1, f.leaf),
                   ret |-> IF l.found THEN "true" ELSE "false", value |-> l.value]

\* BPlusTree::AdjustRoot
AdjustRoot(s, old_root) ==
    LET root_node == s.pg[old_root]
    IN  IF root_node.page_type = "INTERNAL"
        THEN IF GetSize(root_node) = 1
             THEN LET child == root_node.array[1].second
                      s1 == UpdateRootPageId([s EXCEPT !.root = child], FALSE)
                      s2 == SetParentPageId(BpFetchPage(s1, child), child, INVALID_PAGE_ID)
                      s3 == BpUnpinPage(BpUnpinPage(s2, old_root), child)
                  IN  BpDeletePage(s3, old_root)
             ELSE s
        ELSE IF GetSize(root_node) = 0
             THEN BpDeletePage(UpdateRootPageId([s EXCEPT !.root = INVALID_PAGE_ID], FALSE),
                               old_root)
             ELSE s

\* The parent's separator at the page's own slot follows the page's first key.
SetParentKeyOf(s, p) ==
    LET par == s.pg[p].parent_page_id_
        s1  == BpFetchPage(s, par)
        idx == ValueIndex(s1.pg[par].array, p)
    IN  BpUnpinPage([s1 EXCEPT !.pg[par].array[idx + 1].first = s1.pg[p].array[1].first],
                    par)

\* BPlusTreeLeafPage::MoveFirstToEndOf
LeafMoveFirstToEndOf(s, this, recipient) ==
    LET item == s.pg[this].array[1]
        s1 == [s EXCEPT !.pg[recipient].array = Append(@, item),
                        !.pg[this].array = Tail(@)]
    IN  SetParentKeyOf(s1, this)

\* BPlusTreeLeafPage::MoveLastToFrontOf / CopyFirstFrom
LeafMoveLastToFrontOf(s, this, recipient, parentIndex) ==
    LET size == GetSize(s.pg[this])
        item == s.pg[this].array[size]
        s1 == [s EXCEPT !.pg[recipient].array = <<item>> \o @]
        par == s1.pg[recipient].parent_page_id_
        s2 == BpFetchPage(s1, par)
        s3 == BpUnpinPage([s2 EXCEPT !.pg[par].array[parentIndex + 1].first = item.first],
                          par)
    IN  [s3 EXCEPT !.pg[this].array = SubSeq(@, 1, size - 1)]

\* BPlusTreeInternalPage::MoveFirstToEndOf / CopyLastFrom
InternalMoveFirstToEndOf(s, this, recipient) ==
    LET par == s.pg[this].parent_page_id_
        s1  == BpFetchPage(s, par)
        parent_index == ValueIndex(s1.pg[par].array, this)
        pair == Pair(s1.pg[par].array[parent_index + 1].first, s1.pg[this].array[1].second)
        s2  == [s1 EXCEPT !.pg[recipient].array = Append(@, pair)]
        s3  == BpUnpinPage(SetParentPageId(BpFetchPage(s2, pair.second), pair.second,
                                           recipient), pair.second)
        s4  == [s3 EXCEPT !.pg[par].array[parent_index + 1].first = s3.pg[this].array[2].first,
                          !.pg[this].array = Tail(@)]
    IN  BpUnpinPage(s4, par)

\* BPlusTreeInternalPage::MoveLastToFrontOf / CopyFirstFrom
InternalMoveLastToFrontOf(s, this, recipient, parent_index) ==
    LET size == GetSize(s.pg[this])
        pair == s.pg[this].array[size]
        par  == s.pg[recipient].parent_page_id_
        s1   == BpFetchPage(s, par)
        sep  == s1.pg[par].array[parent_index + 1].first
        s2   == [s1 EXCEPT !.pg[recipient].array =
                    <<pair>> \o <<Pair(sep, @[1].second)>> \o Tail(@),
                           !.pg[par].array[parent_index + 1].first = pair.first]
        s3   == SetParentPageId(BpFetchPage(s2, pair.second), pair.second, recipient)
        s4   == BpUnpinPage(BpUnpinPage(s3, par), pair.second)
    IN  [s4 EXCEPT !.pg[this].array = SubSeq(@, 1, size - 1)]

\* BPlusTree::Redistribute
Redistribute(s, neighbor_node, node, index) ==
    LET leaf == s.pg[node].page_type = "LEAF"
        smaller == GetSize(s.pg[node]) < GetSize(s.pg[neighbor_node])
        s1 == IF index = 0
              THEN IF smaller
                   THEN IF leaf THEN LeafMoveFirstToEndOf(s, neighbor_node, node)
                        ELSE InternalMoveFirstToEndOf(s, neighbor_node, node)
                   ELSE IF leaf THEN LeafMoveLastToFrontOf(s, node, neighbor_node, index + 1)
                        ELSE InternalMoveLastToFrontOf(s, node, neighbor_node, index + 1)
              ELSE IF smaller
                   THEN IF leaf THEN LeafMoveLastToFrontOf(s, neighbor_node, node, index)
                        ELSE InternalMoveLastToFrontOf(s, neighbor_node, node, index)
                   ELSE IF leaf THEN LeafMoveFirstToEndOf(s, node, neighbor_node)
                        ELSE InternalMoveFirstToEndOf(s, node, neighbor_node)
    IN  BpUnpinPage(BpUnpinPage(s1, node), neighbor_node)

\* BPlusTreeLeafPage::MoveAllTo / BPlusTreeInternalPage::MoveAllTo
MoveAllTo(s, this, recipient, index_in_parent) ==
    IF s.pg[this].page_type = "LEAF"
    THEN [s EXCEPT !.pg[recipient].array = @ \o s.pg[this].array,
                   !.pg[recipient].next_page_id_ = s.pg[this].next_page_id_,
                   !.pg[this].array = <<>>]
    ELSE LET par == s.pg[this].parent_page_id_
             s1  == BpFetchPage(s, par)
             sep == s1.pg[par].array[index_in_parent + 1].first
             s2  == BpUnpinPage([s1 EXCEPT !.pg[this].array[1].first = sep], par)
             moved == s2.pg[this].array
             s3  == [s2 EXCEPT !.pg[recipient].array = @ \o moved]
             s4  == Reparent(s3, moved, 1, Len(moved), recipient)
         IN  [s4 EXCEPT !.pg[this].array = <<>>]

\* BPlusTree::CoalesceOrRedistribute with BPlusTree::Coalesce
RECURSIVE CoalesceOrRedistribute(_, _)
CoalesceOrRedistribute(s, node) ==
    IF IsRootPage(s.pg[node]) THEN AdjustRoot(s, node)
    ELSE LET par == s.pg[node].parent_page_id_
             s1  == BpFetchPage(s, par)
             index_in_parent == ValueIndex(s1.pg[par].array, node)
             nidx == IF index_in_parent = 0 THEN 1 ELSE index_in_parent - 1
         IN  IF nidx >= GetSize(s1.pg[par]) THEN [s1 EXCEPT !.st = "crash"]
             ELSE
             LET neighbor == s1.pg[par].array[nidx + 1].second
                 s2 == BpFetchPage(s1, neighbor)
                 left  == IF index_in_parent = 0 THEN node ELSE neighbor
                 right == IF index_in_parent = 0 THEN neighbor ELSE node
                 index == IF index_in_parent = 0 THEN 1 ELSE index_in_parent
             IN  IF GetSize(s2.pg[node]) + GetSize(s2.pg[neighbor]) <= GetMaxSize(s2.pg[node])
                 THEN LET c1 == MoveAllTo(s2, right, left, index)
                          c2 == [c1 EXCEPT !.pg[par].array = RemoveAt(@, index + 1)]
                          c3 == BpDeletePage(BpUnpinPage(BpUnpinPage(c2, right), left), right)
                      IN  IF GetSize(c3.pg[par]) < GetMinSize(c3.pg[par])
                          THEN CoalesceOrRedistribute(c3, par)
                          ELSE BpUnpinPage(c3, par)
                 ELSE BpUnpinPage(Redistribute(s2, neighbor, node, index_in_parent), par)

\* BPlusTree::Remove on a tree that is not empty.
TreeRemove(s, key) ==
    LET f    == FindLeafPage(s, key, TRUE, "DELETE")
        leaf == f.leaf
        size == GetSize(f.s.pg[leaf])
        s1   == [f.s EXCEPT !.pg[leaf].array = RemoveAndDeleteRecord(@, key)]
        size_after_deletion == GetSize(s1.pg[leaf])
    IN  IF f.s.st # "ok" THEN f.s
        ELSE IF size = size_after_deletion THEN BpUnpinPage(f.s, leaf)
        ELSE IF size_after_deletion < GetMinSize(s1.pg[leaf])
        THEN CoalesceOrRedistribute(s1, leaf)
        ELSE BpUnpinPage(s1, leaf)

\* The store of a tree on which nothing has been called yet.
FreshStore ==
    [pg |-> [p \in BtPageIds |-> NoNode], pin |-> [p \in BtPageIds |-> 0],
     wl |-> [p \in BtPageIds |-> FALSE], rl |-> FALSE, ps |-> <<>>,
     root |-> INVALID_PAGE_ID, next |-> 1, hdr |-> NoRecord, st |-> "ok"]

InitTree ==
    /\ root_page_id_ = INVALID_PAGE_ID
    /\ bt_pages = [p \in BtPageIds |-> NoNode]
    /\ bt_pin = [p \in BtPageIds |-> 0]
    /\ bt_wlatch = [p \in BtPageIds |-> FALSE]
    /\ bt_root_latch = FALSE
    /\ bt_page_set = <<>>
    /\ bt_next_page_id = 1
    /\ bt_header = NoRecord
    /\ bt_status = "ok"
    /\ bt_map = [k \in Keys |-> 0]
    /\ bt_last = [op |-> "none", ret |-> "none", out |-> 0]

\* The store after Insert(1, 1), ..., Insert(n, 1) on a fresh tree.
RECURSIVE Grown(_)
Grown(n) == IF n = 0 THEN FreshStore ELSE TreeInsert(Grown(n - 1), n, 1).s

\* Keys 1..MaxTallKey are used on the trees that start with three levels or
\* get them with the next Insert; the calls insert keys up to MaxNewKey only.
MaxTallKey == 11

TallKeys == 1..MaxTallKey

MaxNewKey == 8

NewKeys == (MaxKey + 1)..MaxNewKey

\* The store after Insert(k, 1) for the positive and Remove(-k) for the
\* negative numbers of calls, in order, on a fresh tree.
RECURSIVE Called(_)
Called(calls) ==
    IF calls = <<>> THEN FreshStore
    ELSE With(Called(SubSeq(calls, 1, Len(calls) - 1)),
              LAMBDA s : IF calls[Len(calls)] > 0
                         THEN TreeInsert(s, calls[Len(calls)], 1).s
                         ELSE TreeRemove(s, 0 - calls[Len(calls)]))

\* Calls that leave a root over two internal pages, the left one with four
\* leaves and the right one with two: the next Remove(8) empties a leaf of
\* the right page, which then takes the last child of the left page.
WideCalls == <<1, 2, 7, 8, 9, 10, 11, -7, 3, 4, 5, 6>>

Wide == Called(WideCalls)

\* The keys a tree holds after the calls.
RECURSIVE KeysAfter(_)
KeysAfter(calls) ==
    IF calls = <<>> THEN {}
    ELSE IF calls[Len(calls)] > 0
    THEN KeysAfter(SubSeq(calls, 1, Len(calls) - 1)) \cup {calls[Len(calls)]}
    ELSE KeysAfter(SubSeq(calls, 1, Len(calls) - 1)) \ {0 - calls[Len(calls)]}

\* The tree as the calls that built the store s left it, keys holding 1.
InitTreeFrom(s, keys) ==
    /\ root_page_id_ = s.root
    /\ bt_pages = s.pg
    /\ bt_pin = s.pin
    /\ bt_wlatch = s.wl
    /\ bt_root_latch = s.rl
    /\ bt_page_set = s.ps
    /\ bt_next_page_id = s.next
    /\ bt_header = s.hdr
    /\ bt_status = s.st
    /\ bt_map = [k \in TallKeys |-> IF k \in keys THEN 1 ELSE 0]
    /\ bt_last = [op |-> "Insert", ret |-> "true", out |-> 0]

\* The tree as the inserts of the keys 1..MaxKey leave it (the root is an
\* internal page with as many leaves as it can hold), or as WideCalls leave
\* it.
InitTallTree ==
    \/ InitTreeFrom(Grown(MaxKey), Keys)
    \/ InitTreeFrom(Wide, KeysAfter(WideCalls))

\* The call returned: its store becomes the state.
BtReturn(s) ==
    /\ bt_pages' = s.pg
    /\ bt_pin' = s.pin
    /\ bt_wlatch' = s.wl
    /\ bt_root_latch' = s.rl
    /\ bt_page_set' = s.ps
    /\ root_page_id_' = s.root
    /\ bt_next_page_id' = s.next
    /\ bt_header' = s.hdr
    /\ UNCHANGED bt_status

\* The call did not return: the thread waits for a latch for ever ("hang")
\* or the process ended ("crash"); what the call did before is not followed.
BtStuck(st) ==
    /\ bt_status' = st
    /\ UNCHANGED <<bt_pages, bt_pin, bt_wlatch, bt_root_latch, bt_page_set,
                   root_page_id_, bt_next_page_id, bt_header, bt_map>>

BtInsert(key, value) ==
    /\ bt_status = "ok"
    /\ LET r == TreeInsert(Store, key, value)
       IN  /\ r.s.next <= MaxBtPage + 1
           /\ IF r.s.st = "ok"
              THEN /\ BtReturn(r.s)
                   /\ bt_map' = IF r.ret = "true" THEN [bt_map EXCEPT ![key] = value]
                                ELSE bt_map
                   /\ bt_last' = [op |-> "Insert", ret |-> r.ret, out |-> 0]
              ELSE /\ BtStuck(r.s.st)
                   /\ bt_last' = [op |-> "Insert", ret |-> r.s.st, out |-> 0]

\* Remove on an empty tree uses the null page FindLeafPage returned: the
\* call returns at the null check or the process ends.
BtRemove(key) ==
    /\ bt_status = "ok"
    /\ IF root_page_id_ = INVALID_PAGE_ID
       THEN \/ /\ UNCHANGED <<bt_pages, bt_pin, bt_wlatch, bt_root_latch, bt_page_set,
                              root_page_id_, bt_next_page_id, bt_header, bt_status>>
               /\ bt_map' = [bt_map EXCEPT ![key] = 0]
               /\ bt_last' = [op |-> "Remove", ret |-> "void", out |-> 0]
            \/ /\ BtStuck("crash")
               /\ bt_last' = [op |-> "Remove", ret |-> "crash", out |-> 0]
       ELSE LET s == TreeRemove(Store, key)
            IN  IF s.st = "ok"
                THEN /\ BtReturn(s)
                     /\ bt_map' = [bt_map EXCEPT ![key] = 0]
                     /\ bt_last' = [op |-> "Remove", ret |-> "void", out |-> 0]
                ELSE /\ BtStuck(s.st)
                     /\ bt_last' = [op |-> "Remove", ret |-> s.st, out |-> 0]

\* GetValue as a point query without a transaction.
BtGetValue(key) ==
    /\ bt_status = "ok"
    /\ LET r == TreeGetValue(Store, key, FALSE)
       IN  IF r.s.st = "ok"
           THEN /\ BtReturn(r.s)
                /\ bt_last' = [op |-> "GetValue", ret |-> r.ret, out |-> r.value]
                /\ UNCHANGED bt_map
           ELSE /\ BtStuck(r.s.st)
                /\ bt_last' = [op |-> "GetValue", ret |-> r.s.st, out |-> 0]

(***************************************************************************)
(* Index iterator (index/index_iterator.cpp) and BPlusTree::Begin. A scan  *)
(* is the loop for(it = Begin(..); !it.isEnd(); ++it) that reads the item  *)
(* at the iterator, followed by the destructor of the iterator.            *)
(***************************************************************************)
MaxScanKey == 5

ScanKeys == 1..MaxScanKey

\* More rounds than a scan of the largest tree takes.
ScanFuel == MaxKey + MaxBtPage + MaxNewPages + 1

\* What GetItem returns for an index at or past the size of the leaf: the
\* bytes of the page behind the last entry, which are no entry of the leaf.
StaleItem == Pair(0, 0)

\* The loop of FindLeafPage with leftMost = true and no transaction.
RECURSIVE FindLeftMostLoop(_, _)
FindLeftMostLoop(s, page) ==
    IF s.st # "ok" \/ s.pg[page].page_type # "INTERNAL" THEN [s |-> s, leaf |-> page]
    ELSE With(s.pg[page].array[1].second, LAMBDA child :
         With(LockPage(BpFetchPage(s, child), child, FALSE, "SEARCH"), LAMBDA s1 :
         FindLeftMostLoop(IF s1.st = "ok" THEN BpUnpinPage(s1, page) ELSE s1, child)))

\* FindLeafPage(tmp, true, nullptr, Operation::SEARCH) on a tree with a root.
FindLeftMostLeaf(s) ==
    FindLeftMostLoop(LockPage(BpFetchPage(s, s.root), s.root, FALSE, "SEARCH"), s.root)

Iterator(page_id, index) == [page_id_ |-> page_id, index_ |-> index]

\* IndexIterator::isEnd
IsEnd(s, it) ==
    /\ it.index_ >= GetSize(s.pg[it.page_id_])
    /\ s.pg[it.page_id_].next_page_id_ = INVALID_PAGE_ID

\* IndexIterator::operator* when isEnd() is false: leaf_->GetItem(index_).
Deref(s, it) ==
    IF it.index_ < GetSize(s.pg[it.page_id_])
    THEN s.pg[it.page_id_].array[it.index_ + 1]
    ELSE StaleItem

\* The branch of operator++ that moves to the next leaf.
MoveToNext(s, it, next) ==
    [s |-> BpFetchPage(BpUnpinPage(s, it.page_id_), next), it |-> Iterator(next, 0)]

\* IndexIterator::operator++
Increment(s, it) ==
    IF it.index_ + 1 >= GetSize(s.pg[it.page_id_])
       /\ s.pg[it.page_id_].next_page_id_ # INVALID_PAGE_ID
    THEN MoveToNext(s, it, s.pg[it.page_id_].next_page_id_)
    ELSE [s |-> s, it |-> Iterator(it.page_id_, it.index_ + 1)]

\* The iterator's pins: one more than before the scan on its leaf, none
\* elsewhere.
HoldsOnePin(s0, s, it) == s.pin = [s0.pin EXCEPT ![it.page_id_] = @ + 1]

ScanResult(s, out, pinned) == [s |-> s, out |-> out, pinned |-> pinned]

\* The scan from the iterator it: the items yielded, whether the iterator
\* held exactly one pin at every step, and the store after its destructor.
RECURSIVE ScanLoop(_, _, _, _, _, _)
ScanLoop(s0, s, it, out, pinned, fuel) ==
    IF s.st # "ok" THEN ScanResult(s, out, pinned)
    ELSE IF fuel = 0 THEN ScanResult([s EXCEPT !.st = "hang"], out, pinned)
    ELSE IF IsEnd(s, it)
    THEN ScanResult(BpUnpinPage(s, it.page_id_), out, pinned /\ HoldsOnePin(s0, s, it))
    ELSE With(Increment(s, it), LAMBDA n :
         ScanLoop(s0, n.s, n.it, Append(out, Deref(s, it)),
                  pinned /\ HoldsOnePin(s0, s, it), fuel - 1))

\* The end of Begin and the constructor of the iterator: the leaf is
\* unlatched and unpinned, then fetched again by IndexIterator.
ScanFrom(s0, f, index) ==
    IF f.s.st # "ok" THEN ScanResult(f.s, <<>>, TRUE)
    ELSE ScanLoop(s0, BpFetchPage(BpUnpinPage(f.s, f.leaf), f.leaf),
                  Iterator(f.leaf, index), <<>>, TRUE, ScanFuel)

\* The scan from the leaf FindLeafPage found for key, at KeyIndex(key).
ScanFromKey(s0, f, key) ==
    ScanFrom(s0, f, IF f.s.st = "ok" THEN KeyIndex(f.s.pg[f.leaf].array, key) ELSE 0)

\* BPlusTree::Begin() and the scan. On an empty tree FindLeafPage returns
\* nullptr and Begin reads the page id through it: the process ends.
TreeBegin(s) ==
    IF s.root = INVALID_PAGE_ID THEN ScanResult([s EXCEPT !.st = "crash"], <<>>, TRUE)
    ELSE ScanFrom(s, FindLeftMostLeaf(s), 0)

\* BPlusTree::Begin(key) and the scan.
TreeBeginKey(s, key) ==
    IF s.root = INVALID_PAGE_ID THEN ScanResult([s EXCEPT !.st = "crash"], <<>>, TRUE)
    ELSE ScanFromKey(s, FindLeafPage(s, key, FALSE, "SEARCH"), key)

ScanReturn(op, r) ==
    IF r.s.st = "ok"
    THEN /\ BtReturn(r.s)
         /\ bt_last' = [op |-> op, ret |-> "end", out |-> Len(r.out)]
         /\ UNCHANGED bt_map
    ELSE /\ BtStuck(r.s.st)
         /\ bt_last' = [op |-> op, ret |-> r.s.st, out |-> 0]

BtBegin ==
    /\ bt_status = "ok"
    /\ ScanReturn("Begin", TreeBegin(Store))

BtBeginKey(key) ==
    /\ bt_status = "ok"
    /\ ScanReturn("BeginKey", TreeBeginKey(Store, key))

(***************************************************************************)
(* Concurrent Insert on an empty tree: each thread calls Insert once, with *)
(* a Transaction of its own. There are as many threads as a leaf holds     *)
(* entries, so every insert lands in the root leaf. A thread waits where   *)
(* the code blocks on a mutex or a latch.                                  *)
(***************************************************************************)
InsertThreads == 1..LeafMaxSize

VARIABLES
    root_mutex_,      \* 0 when free, else the thread inside lock_guard
    ci_pc,            \* position of each thread in Insert
    ci_key,           \* arguments of the call
    ci_value,
    ci_ret,           \* "none", "true", "false"
    ci_page,          \* the page the thread works on
    ci_page_set,      \* the page set of the thread's Transaction
    ci_hdr_inserts    \* calls of HeaderPage::InsertRecord

insVars == <<root_mutex_, ci_pc, ci_key, ci_value, ci_ret, ci_page, ci_page_set,
             ci_hdr_inserts>>

InitInsert ==
    /\ root_mutex_ = 0
    /\ ci_pc = [t \in InsertThreads |-> "idle"]
    /\ ci_key = [t \in InsertThreads |-> 0]
    /\ ci_value = [t \in InsertThreads |-> 0]
    /\ ci_ret = [t \in InsertThreads |-> "none"]
    /\ ci_page = [t \in InsertThreads |-> INVALID_PAGE_ID]
    /\ ci_page_set = [t \in InsertThreads |-> <<>>]
    /\ ci_hdr_inserts = 0

\* The store as thread t sees it: the shared pages and its own page set.
CStore(t) == [Store EXCEPT !.ps = ci_page_set[t]]

\* A step of thread t leaves the store s.
CReturn(t, s) ==
    /\ bt_pages' = s.pg
    /\ bt_pin' = s.pin
    /\ bt_wlatch' = s.wl
    /\ bt_root_latch' = s.rl
    /\ root_page_id_' = s.root
    /\ bt_next_page_id' = s.next
    /\ bt_header' = s.hdr
    /\ ci_page_set' = [ci_page_set EXCEPT ![t] = s.ps]
    /\ UNCHANGED <<bt_page_set, bt_status, bt_last>>

RootMutexFree_Always == TRUE

\* std::lock_guard<std::mutex> locker(root_mutex_) can be taken.
RootMutexFree == root_mutex_ = 0

\* Thread t calls Insert(key, value).
CiCall(t, key, value) ==
    /\ bt_status = "ok"
    /\ ci_pc[t] = "idle"
    /\ ci_key' = [ci_key EXCEPT ![t] = key]
    /\ ci_value' = [ci_value EXCEPT ![t] = value]
    /\ ci_pc' = [ci_pc EXCEPT ![t] = "mutex"]
    /\ UNCHANGED <<treeVars, root_mutex_, ci_ret, ci_page, ci_page_set, ci_hdr_inserts>>

\* The block of Insert under root_mutex_: IsEmpty() is tested; the thread
\* keeps the mutex for StartNewTree or leaves the block.
CiTestEmpty(t) ==
    /\ bt_status = "ok"
    /\ ci_pc[t] = "mutex"
    /\ RootMutexFree
    /\ IF root_page_id_ = INVALID_PAGE_ID
       THEN /\ root_mutex_' = t
            /\ ci_pc' = [ci_pc EXCEPT ![t] = "new"]
       ELSE /\ UNCHANGED root_mutex_
            /\ ci_pc' = [ci_pc EXCEPT ![t] = "lockroot"]
    /\ UNCHANGED <<treeVars, ci_key, ci_value, ci_ret, ci_page, ci_page_set,
                   ci_hdr_inserts>>

\* StartNewTree: assert(IsEmpty()) and NewPage(root_page_id_).
CiNewPage(t) ==
    /\ bt_status = "ok"
    /\ ci_pc[t] = "new"
    /\ IF root_page_id_ # INVALID_PAGE_ID
       THEN /\ bt_status' = "crash"
            /\ UNCHANGED <<bt_pages, bt_pin, bt_wlatch, bt_root_latch, bt_page_set,
                           root_page_id_, bt_next_page_id, bt_header, bt_map, bt_last,
                           ci_pc, ci_page, ci_page_set>>
       ELSE /\ CReturn(t, [BpNewPage(CStore(t), NoNode) EXCEPT !.root = bt_next_page_id])
            /\ ci_page' = [ci_page EXCEPT ![t] = bt_next_page_id]
            /\ ci_pc' = [ci_pc EXCEPT ![t] = "init"]
            /\ UNCHANGED bt_map
    /\ UNCHANGED <<root_mutex_, ci_key, ci_value, ci_ret, ci_hdr_inserts>>

\* The rest of StartNewTree on the new page, in one store.
InitRoot(s, page, key, value) ==
    BpUnpinPage(
        WUnlatch(
            [UpdateRootPageId(WLatch(s, page), TRUE) EXCEPT
                !.pg[page] = [LeafInit(INVALID_PAGE_ID) EXCEPT
                                 !.array = LeafInsert(<<>>, key, value)]],
            page),
        page)

\* StartNewTree after NewPage: latch, header record, Init, Insert, unlatch,
\* unpin; Insert returns true and the lock_guard ends.
CiInitRoot(t) ==
    /\ bt_status = "ok"
    /\ ci_pc[t] = "init"
    /\ ~bt_wlatch[ci_page[t]]
    /\ CReturn(t, InitRoot(CStore(t), ci_page[t], ci_key[t], ci_value[t]))
    /\ ci_hdr_inserts' = ci_hdr_inserts + 1
    /\ root_mutex_' = IF root_mutex_ = t THEN 0 ELSE root_mutex_
    /\ ci_ret' = [ci_ret EXCEPT ![t] = "true"]
    /\ ci_pc' = [ci_pc EXCEPT ![t] = "done"]
    /\ bt_map' = [bt_map EXCEPT ![ci_key[t]] = ci_value[t]]
    /\ UNCHANGED <<ci_key, ci_value, ci_page>>

\* FindLeafPage: LockRoot().
CiLockRoot(t) ==
    /\ bt_status = "ok"
    /\ ci_pc[t] = "lockroot"
    /\ ~bt_root_latch
    /\ bt_root_latch' = TRUE
    /\ ci_pc' = [ci_pc EXCEPT ![t] = "fetch"]
    /\ UNCHANGED <<bt_pages, bt_pin, bt_wlatch, bt_page_set, root_page_id_,
                   bt_next_page_id, bt_header, bt_status, bt_map, bt_last,
                   root_mutex_, ci_key, ci_value, ci_ret, ci_page, ci_page_set,
                   ci_hdr_inserts>>

\* FindLeafPage from the root to the leaf of the key.
FindFromRoot(s, key) ==
    FindLeafLoop(LockPage(BpFetchPage(s, s.root), s.root, TRUE, "INSERT"),
                 s.root, key, TRUE, "INSERT")

\* FindLeafPage after LockRoot: the root is fetched and latched, and the
\* loop runs down to the leaf.
CiFindLeaf(t) ==
    /\ bt_status = "ok"
    /\ ci_pc[t] = "fetch"
    /\ FindFromRoot(CStore(t), ci_key[t]).s.st = "ok"
    /\ CReturn(t, FindFromRoot(CStore(t), ci_key[t]).s)
    /\ ci_page' = [ci_page EXCEPT ![t] = FindFromRoot(CStore(t), ci_key[t]).leaf]
    /\ ci_pc' = [ci_pc EXCEPT ![t] = "leaf"]
    /\ UNCHANGED <<bt_map, root_mutex_, ci_key, ci_value, ci_ret, ci_hdr_inserts>>

\* InsertIntoLeaf on the latched leaf.
CiInsertAtLeaf(t) ==
    /\ bt_status = "ok"
    /\ ci_pc[t] = "leaf"
    /\ InsertAtLeaf(CStore(t), ci_page[t], ci_key[t], ci_value[t]).s.st = "ok"
    /\ CReturn(t, InsertAtLeaf(CStore(t), ci_page[t], ci_key[t], ci_value[t]).s)
    /\ ci_ret' = [ci_ret EXCEPT ![t] =
                     InsertAtLeaf(CStore(t), ci_page[t], ci_key[t], ci_value[t]).ret]
    /\ bt_map' = IF ci_ret'[t] = "true"
                 THEN [bt_map EXCEPT ![ci_key[t]] = ci_value[t]] ELSE bt_map
    /\ ci_pc' = [ci_pc EXCEPT ![t] = "done"]
    /\ UNCHANGED <<root_mutex_, ci_key, ci_value, ci_page, ci_hdr_inserts>>

AllDone == \A t \in InsertThreads : ci_pc[t] = "done"

\* GetValue(key) by the caller once every Insert has returned.
CiGetValue(key) ==
    /\ AllDone
    /\ BtGetValue(key)

(***************************************************************************)
(* Log recovery (logging/log_recovery.cpp)                                 *)
(*                                                                         *)
(* A run of transactions leaves a log and table pages on disk; after the   *)
(* crash Redo and then Undo work on them.  A table page holds one tuple    *)
(* slot, so a RID is named by its page.  The whole log is on disk at the   *)
(* crash and fits one log buffer; a page is on disk as it was when it was  *)
(* last written.                                                           *)
(***************************************************************************)
\* Transactions 1..MaxRcTxn write the log.
MaxRcTxn == 2

\* Table pages 1..MaxRcPage, one tuple slot each.
MaxRcPage == 2

\* Tuples 1..MaxTuple; 0 is an empty slot.
MaxTuple == 2

INVALID_LSN == -1

RcTxns == 1..MaxRcTxn

RcPages == 1..MaxRcPage

Tuples == 1..MaxTuple

VARIABLES
    rc_log,        \* the log file: record i has LSN i - 1
    rc_disk,       \* table pages on disk: [lsn, tuple]
    rc_pages,      \* table pages in the buffer pool
    rc_pin,        \* pin counts of the table pages
    active_txn_,   \* LogRecovery::active_txn_: txn -> lsn, INVALID_LSN if absent
    rc_phase       \* "run", "crashed", "redone", "recovered"

recVars == <<rc_log, rc_disk, rc_pages, rc_pin, active_txn_, rc_phase>>

LogRecord(type, txn, prev_lsn, page, tuple) ==
    [type |-> type, txn |-> txn, prev_lsn |-> prev_lsn, page |-> page, tuple |-> tuple]

\* The records of txn in the log, by position.
RecordsOf(txn) == {i \in DOMAIN rc_log : rc_log[i].txn = txn}

HasRecord(txn, type) == \E i \in RecordsOf(txn) : rc_log[i].type = type

\* Transaction::prev_lsn_: the LSN of the last record txn wrote.
PrevLsnOf(txn) ==
    IF RecordsOf(txn) = {} THEN INVALID_LSN
    ELSE (CHOOSE i \in RecordsOf(txn) : \A j \in RecordsOf(txn) : j <= i) - 1

Running(txn) ==
    HasRecord(txn, "BEGIN") /\ ~HasRecord(txn, "COMMIT") /\ ~HasRecord(txn, "ABORT")

InitRecovery ==
    /\ rc_log = <<>>
    /\ rc_disk = [p \in RcPages |-> [lsn |-> INVALID_LSN, tuple |-> 0]]
    /\ rc_pages = [p \in RcPages |-> [lsn |-> INVALID_LSN, tuple |-> 0]]
    /\ rc_pin = [p \in RcPages |-> 0]
    /\ active_txn_ = [t \in RcTxns |-> INVALID_LSN]
    /\ rc_phase = "run"

\* The transaction starts: a BEGIN record.
RunBegin(txn) ==
    /\ rc_phase = "run"
    /\ RecordsOf(txn) = {}
    /\ rc_log' = Append(rc_log, LogRecord("BEGIN", txn, INVALID_LSN, 0, 0))
    /\ UNCHANGED <<rc_disk, rc_pages, rc_pin, active_txn_, rc_phase>>

\* The transaction inserts tuple into the empty slot of page: an INSERT
\* record, and the page carries the tuple and the LSN of the record.
RunInsert(txn, page, tuple) ==
    /\ rc_phase = "run"
    /\ Running(txn)
    /\ \A i \in DOMAIN rc_log : rc_log[i].page # page
    /\ rc_log' = Append(rc_log, LogRecord("INSERT", txn, PrevLsnOf(txn), page, tuple))
    /\ rc_pages' = [rc_pages EXCEPT ![page] = [lsn |-> Len(rc_log), tuple |-> tuple]]
    /\ UNCHANGED <<rc_disk, rc_pin, active_txn_, rc_phase>>

\* The transaction commits: a COMMIT record.
RunCommit(txn) ==
    /\ rc_phase = "run"
    /\ Running(txn)
    /\ rc_log' = Append(rc_log, LogRecord("COMMIT", txn, PrevLsnOf(txn), 0, 0))
    /\ UNCHANGED <<rc_disk, rc_pages, rc_pin, active_txn_, rc_phase>>

\* The buffer pool writes a table page to disk.
RunWritePage(page) ==
    /\ rc_phase = "run"
    /\ rc_disk[page] # rc_pages[page]
    /\ rc_disk' = [rc_disk EXCEPT ![page] = rc_pages[page]]
    /\ UNCHANGED <<rc_log, rc_pages, rc_pin, active_txn_, rc_phase>>

\* The crash: the buffer pool of the restarted process holds what is on disk.
Crash ==
    /\ rc_phase = "run"
    /\ rc_phase' = "crashed"
    /\ rc_pages' = rc_disk
    /\ UNCHANGED <<rc_log, rc_disk, rc_pin, active_txn_>>

\* What Redo and Undo work on: the pages, the pins and active_txn_.
RcStore == [pages |-> rc_pages, pin |-> rc_pin, active |-> active_txn_]

\* The INSERT case of Redo for the record with LSN lsn: the page is fetched;
\* a page at or beyond the record is left as it is, without UnpinPage;
\* otherwise TablePage::InsertTuple puts the tuple and the page is unpinned.
RedoInsert(st, record, lsn) ==
    IF st.pages[record.page].lsn >= lsn
    THEN [st EXCEPT !.pin[record.page] = @ + 1]
    ELSE [st EXCEPT !.pages[record.page].tuple = record.tuple]

\* One round of the inner loop of Redo.
RedoRecord(st, record, lsn) ==
    CASE record.type = "BEGIN" -> [st EXCEPT !.active[record.txn] = lsn]
      [] record.type \in {"COMMIT", "ABORT"} ->
            [st EXCEPT !.active[record.txn] = INVALID_LSN]
      [] record.type = "INSERT" -> RedoInsert(st, record, lsn)
      [] OTHER -> st

\* LogRecovery::Redo from record i of the log on.
RECURSIVE RedoFrom(_, _)
RedoFrom(st, i) ==
    IF i > Len(rc_log) THEN st
    ELSE RedoFrom(RedoRecord(st, rc_log[i], i - 1), i + 1)

\* lsn_mapping_[lsn]: the place of the record in the log; operator[] gives
\* offset 0, the first record, for an LSN that was never mapped.
LsnMapping(lsn) == IF lsn + 1 \in DOMAIN rc_log THEN lsn + 1 ELSE 1

\* The while loop of Undo for one transaction, at the record of last_lsn:
\* BEGIN ends it; an INSERT on a page older than the record is passed over
\* without UnpinPage, otherwise TablePage::ApplyDelete empties the slot.
RECURSIVE UndoLoop(_, _)
UndoLoop(st, last_lsn) ==
    With(rc_log[LsnMapping(last_lsn)], LAMBDA record :
         IF record.type = "BEGIN" THEN st
         ELSE IF record.type = "INSERT"
         THEN IF st.pages[record.page].lsn < LsnMapping(last_lsn) - 1
              THEN UndoLoop([st EXCEPT !.pin[record.page] = @ + 1], record.prev_lsn)
              ELSE UndoLoop([st EXCEPT !.pages[record.page].tuple = 0], record.prev_lsn)
         ELSE UndoLoop(st, record.prev_lsn))

\* The for loop of Undo over the entries of active_txn_.
RECURSIVE UndoAll(_, _)
UndoAll(st, txns) ==
    IF txns = {} THEN st
    ELSE With(SetMin(txns), LAMBDA txn :
         UndoAll(UndoLoop(st, st.active[txn]), txns \ {txn}))

\* LogRecovery::Undo
UndoOutcome(st) ==
    IF ~ENABLE_LOGGING THEN st
    ELSE UndoAll(st, {t \in RcTxns : st.active[t] # INVALID_LSN})

RcReturn(st, phase) ==
    /\ rc_pages' = st.pages
    /\ rc_pin' = st.pin
    /\ active_txn_' = st.active
    /\ rc_phase' = phase
    /\ UNCHANGED <<rc_log, rc_disk>>

Redo ==
    /\ rc_phase = "crashed"
    /\ RcReturn(RedoFrom(RcStore, 1), "redone")

Undo ==
    /\ rc_phase = "redone"
    /\ RcReturn(UndoOutcome(RcStore), "recovered")

(***************************************************************************)
(* Log manager: appender threads, ForceFlush callers and the flush thread  *)
(* of RunFlushThread. A record occupies RecordSize units of a buffer of    *)
(* LOG_BUFFER_SIZE units. Every step that runs under latch_ is one action. *)
(* The flush thread is the only waiter on cv_.                             *)
(***************************************************************************)
MaxLogThread == 2
MaxLogLsn == 3
LOG_BUFFER_SIZE == 2
RecordSize == 1

LogThreads == 1..MaxLogThread

\* What a buffer slot holds after a copy past the end of the buffer was
\* damaged.
Garbled == -3

VARIABLES
    log_buffer_,      \* records copied into the log buffer, by slot
    flush_buffer_,    \* the buffer the flush thread writes from
    offset_,          \* units used in log_buffer_
    allow_to_flush_,
    log_file,         \* what WriteLog has appended to the log file
    fl_pc,            \* flush thread: "wait", "write", "publish"
    fl_notified,      \* a notification reached the waiting flush thread
    flush_log_size,   \* locals of the flush thread's loop body
    flush_lsn,
    lg_pc,            \* position of each caller thread
    lg_snap,          \* largest LSN assigned when ForceFlush was called
    lg_last           \* the last call that returned

logVars == <<log_buffer_, flush_buffer_, offset_, allow_to_flush_, log_file,
             fl_pc, fl_notified, flush_log_size, flush_lsn, lg_pc, lg_snap,
             lg_last>>

LgLast(op, t, lsn, fit, snap, plsn, written) ==
    [op |-> op, tid |-> t, lsn |-> lsn, fit |-> fit, snap |-> snap,
     plsn |-> plsn, written |-> written]

InitLog ==
    /\ log_buffer_ = <<>>
    /\ flush_buffer_ = <<>>
    /\ offset_ = 0
    /\ allow_to_flush_ = FALSE
    /\ log_file = <<>>
    /\ fl_pc = "wait"
    /\ fl_notified = FALSE
    /\ flush_log_size = 0
    /\ flush_lsn = 0
    /\ lg_pc = [t \in LogThreads |-> "idle"]
    /\ lg_snap = [t \in LogThreads |-> INVALID_LSN]
    /\ lg_last = LgLast("none", 0, INVALID_LSN, TRUE, INVALID_LSN, INVALID_LSN, TRUE)

\* The part of bpmVars the log manager does not touch.
bpmPoolVars == <<pages_, page_table_, replacer_, free_list_, disk_pages,
                 disk_next_page_id, bpm_last, bpm_write>>

Range(s) == {s[i] : i \in 1..Len(s)}

Prefix(s, n) == SubSeq(s, 1, IF n < Len(s) THEN n ELSE Len(s))

\* memcpy(log_buffer_ + offset_, ...): slot pos of the buffer takes rec.
PutAt(buf, pos, rec) ==
    IF pos <= Len(buf) THEN [buf EXCEPT ![pos] = rec] ELSE Append(buf, rec)

\* if(log_record.GetSize() > LOG_BUFFER_SIZE - offset_) is false.
Fits(size) == ~(size > LOG_BUFFER_SIZE - offset_)

\* cv_.notify_one() / cv_.notify_all(): reaches the flush thread only while
\* it waits in wait_for.
Notify == fl_notified' = (fl_notified \/ fl_pc = "wait")

\* The tail of AppendLogRecord: the LSN is taken, the record is copied at
\* offset_ and offset_ advances. A copy that ends past the end of the buffer
\* writes outside the allocation; what the slot holds afterwards is the
\* record or damaged bytes.
CopyRecord(t) ==
    /\ next_lsn_ < MaxLogLsn
    /\ next_lsn_' = next_lsn_ + 1
    /\ \E rec \in {next_lsn_, Garbled} :
          /\ rec = Garbled => offset_ + RecordSize > LOG_BUFFER_SIZE
          /\ log_buffer_' = PutAt(log_buffer_, offset_ + 1, rec)
    /\ offset_' = offset_ + RecordSize
    /\ lg_pc' = [lg_pc EXCEPT ![t] = "idle"]
    /\ lg_last' = LgLast("AppendLogRecord", t, next_lsn_,
                         offset_ + RecordSize <= LOG_BUFFER_SIZE,
                         INVALID_LSN, persistent_lsn_, TRUE)
    /\ UNCHANGED <<flush_buffer_, allow_to_flush_, log_file, fl_pc,
                   fl_notified, flush_log_size, flush_lsn, lg_snap,
                   ENABLE_LOGGING, persistent_lsn_, persistent_lsn_changed_,
                   bpmPoolVars>>

\* AppendLogRecord up to the first unlock: the record fits and is copied, or
\* allow_to_flush_ is raised and latch_ is released.
AppendLogRecord(t) ==
    /\ lg_pc[t] = "idle"
    /\ next_lsn_ < MaxLogLsn
    /\ IF Fits(RecordSize)
       THEN CopyRecord(t)
       ELSE /\ allow_to_flush_' = TRUE
            /\ lg_pc' = [lg_pc EXCEPT ![t] = "ap_notify"]
            /\ UNCHANGED <<log_buffer_, flush_buffer_, offset_, log_file,
                           fl_pc, fl_notified, flush_log_size, flush_lsn,
                           lg_snap, lg_last, logVarsOfBPM, bpmPoolVars>>

\* cv_.notify_all() of AppendLogRecord, outside latch_.
AppendNotify(t) ==
    /\ lg_pc[t] = "ap_notify"
    /\ Notify
    /\ lg_pc' = [lg_pc EXCEPT ![t] = "ap_relock"]
    /\ UNCHANGED <<log_buffer_, flush_buffer_, offset_, allow_to_flush_,
                   log_file, fl_pc, flush_log_size, flush_lsn, lg_snap,
                   lg_last, logVarsOfBPM, bpmPoolVars>>

\* locker.lock() and the copy that follows it; the space is not tested again.
AppendRelock(t) ==
    /\ lg_pc[t] = "ap_relock"
    /\ CopyRecord(t)

\* ForceFlush: allow_to_flush_ = true under latch_.
ForceFlush(t) ==
    /\ lg_pc[t] = "idle"
    /\ allow_to_flush_' = TRUE
    /\ lg_snap' = [lg_snap EXCEPT ![t] = next_lsn_ - 1]
    /\ lg_pc' = [lg_pc EXCEPT ![t] = "ff_notify"]
    /\ UNCHANGED <<log_buffer_, flush_buffer_, offset_, log_file, fl_pc,
                   fl_notified, flush_log_size, flush_lsn, lg_last,
                   logVarsOfBPM, bpmPoolVars>>

\* ForceFlush: cv_.notify_one().
ForceFlushNotify(t) ==
    /\ lg_pc[t] = "ff_notify"
    /\ Notify
    /\ lg_pc' = [lg_pc EXCEPT ![t] = "ff_spin"]
    /\ UNCHANGED <<log_buffer_, flush_buffer_, offset_, allow_to_flush_,
                   log_file, fl_pc, flush_log_size, flush_lsn, lg_snap,
                   lg_last, logVarsOfBPM, bpmPoolVars>>

\* ForceFlush: while(!persistent_lsn_changed_); ends.
ForceFlushSpin(t) ==
    /\ lg_pc[t] = "ff_spin"
    /\ persistent_lsn_changed_
    /\ lg_pc' = [lg_pc EXCEPT ![t] = "ff_reset"]
    /\ UNCHANGED <<log_buffer_, flush_buffer_, offset_, allow_to_flush_,
                   log_file, fl_pc, fl_notified, flush_log_size, flush_lsn,
                   lg_snap, lg_last, logVarsOfBPM, bpmPoolVars>>

\* ForceFlush: persistent_lsn_changed_ = false; return.
ForceFlushReturn(t) ==
    /\ lg_pc[t] = "ff_reset"
    /\ persistent_lsn_changed_' = FALSE
    /\ lg_pc' = [lg_pc EXCEPT ![t] = "idle"]
    /\ lg_last' = LgLast("ForceFlush", t, INVALID_LSN, TRUE, lg_snap[t],
                         persistent_lsn_,
                         \A l \in 0..lg_snap[t] : l \in Range(log_file))
    /\ UNCHANGED <<log_buffer_, flush_buffer_, offset_, allow_to_flush_,
                   log_file, fl_pc, fl_notified, flush_log_size, flush_lsn,
                   lg_snap, ENABLE_LOGGING, next_lsn_, persistent_lsn_,
                   bpmPoolVars>>

\* SwapBuffer(): the two buffers change roles and offset_ restarts.
SwapBuffer ==
    /\ log_buffer_' = flush_buffer_
    /\ flush_buffer_' = log_buffer_
    /\ offset_' = 0

FlushLsn_Next(next) == next

\* flush_lsn = next_lsn_ - 1.
FlushLsn(next) == next - 1

\* The flush thread leaves wait_for with latch_ held and runs the loop body
\* up to the unlock: the buffers are swapped after a timeout or when
\* allow_to_flush_ is set; allow_to_flush_ is cleared and flush_lsn is taken
\* in every case.
FlusherWake(status) ==
    /\ ENABLE_LOGGING
    /\ fl_pc = "wait"
    /\ status = "no_timeout" => fl_notified
    /\ IF status = "timeout" \/ allow_to_flush_
       THEN flush_log_size' = offset_ /\ SwapBuffer
       ELSE flush_log_size' = 0 /\ UNCHANGED <<log_buffer_, flush_buffer_, offset_>>
    /\ allow_to_flush_' = FALSE
    /\ flush_lsn' = FlushLsn(next_lsn_)
    /\ fl_notified' = FALSE
    /\ fl_pc' = "write"
    /\ UNCHANGED <<log_file, lg_pc, lg_snap, lg_last, logVarsOfBPM, bpmPoolVars>>

\* disk_manager_->WriteLog(flush_buffer_, flush_log_size).
WriteLog ==
    /\ fl_pc = "write"
    /\ ENABLE_LOGGING
    /\ log_file' = log_file \o Prefix(flush_buffer_, flush_log_size)
    /\ fl_pc' = "publish"
    /\ UNCHANGED <<log_buffer_, flush_buffer_, offset_, allow_to_flush_,
                   fl_notified, flush_log_size, flush_lsn, lg_pc, lg_snap,
                   lg_last, logVarsOfBPM, bpmPoolVars>>

\* SetPersistentLSN(flush_lsn), then the next iteration enters wait_for.
SetPersistentLSN ==
    /\ fl_pc = "publish"
    /\ persistent_lsn_' = flush_lsn
    /\ persistent_lsn_changed_' = TRUE
    /\ fl_pc' = "wait"
    /\ UNCHANGED <<log_buffer_, flush_buffer_, offset_, allow_to_flush_,
                   log_file, fl_notified, flush_log_size, flush_lsn, lg_pc,
                   lg_snap, lg_last, ENABLE_LOGGING, next_lsn_, bpmPoolVars>>


(***************************************************************************)
(* LRU replacer on its own (buffer/lru_replacer.cpp): a list with the most *)
(* recent value at the front and a map from each tracked value to its node *)
(* in the list.  Every operation runs under the replacer's mutex.          *)
(***************************************************************************)
\* Values are 1..MaxLruValue.
MaxLruValue == 4

LruValues == 1..MaxLruValue

VARIABLES
    lru_lst,     \* lst, front first
    lru_hash,    \* the keys of hash
    lru_rank,    \* per value its rank by time of the latest Insert (1 = oldest), 0 when not tracked
    lru_last     \* the last call and what it returned

lruVars == <<lru_lst, lru_hash, lru_rank, lru_last>>

LruLast(op, value, ret, size) == [op |-> op, value |-> value, ret |-> ret, size |-> size]

InitLru ==
    /\ lru_lst = <<>>
    /\ lru_hash = {}
    /\ lru_rank = [v \in LruValues |-> 0]
    /\ lru_last = LruLast("none", 0, FALSE, 0)

\* The position of the node hash[value] refers to.
NodeOf(lst, value) == CHOOSE i \in 1..Len(lst) : lst[i] = value

\* Lines 21-24: an already tracked value is unlinked from the list.
Unlink_Skip(lst, hash, value) == lst

Unlink(lst, hash, value) ==
    IF value \in hash THEN RemoveAt(lst, NodeOf(lst, value)) ELSE lst

\* The ranks after the value stops being tracked.
Untrack(rank, value) ==
    [v \in LruValues |->
        IF v = value THEN 0
        ELSE IF rank[value] # 0 /\ rank[v] > rank[value] THEN rank[v] - 1
        ELSE rank[v]]

\* The ranks after an Insert of the value: it becomes the latest.
Touch(rank, value) ==
    [Untrack(rank, value) EXCEPT
        ![value] = Cardinality({v \in LruValues \ {value} : rank[v] # 0}) + 1]

LruInsert(value) ==
    /\ lru_lst' = <<value>> \o Unlink(lru_lst, lru_hash, value)
    /\ lru_hash' = lru_hash \cup {value}
    /\ lru_rank' = Touch(lru_rank, value)
    /\ lru_last' = LruLast("Insert", value, TRUE, 0)

LruVictim ==
    IF lru_lst = <<>>
    THEN /\ lru_last' = LruLast("Victim", 0, FALSE, 0)
         /\ UNCHANGED <<lru_lst, lru_hash, lru_rank>>
    ELSE /\ lru_lst' = SubSeq(lru_lst, 1, Len(lru_lst) - 1)
         /\ lru_hash' = lru_hash \ {lru_lst[Len(lru_lst)]}
         /\ lru_rank' = Untrack(lru_rank, lru_lst[Len(lru_lst)])
         /\ lru_last' = LruLast("Victim", lru_lst[Len(lru_lst)], TRUE, 0)

LruErase(value) ==
    IF value \notin lru_hash
    THEN /\ lru_last' = LruLast("Erase", value, FALSE, 0)
         /\ UNCHANGED <<lru_lst, lru_hash, lru_rank>>
    ELSE /\ lru_lst' = RemoveAt(lru_lst, NodeOf(lru_lst, value))
         /\ lru_hash' = lru_hash \ {value}
         /\ lru_rank' = Untrack(lru_rank, value)
         /\ lru_last' = LruLast("Erase", value, TRUE, 0)

\* Size() returns hash.size().
LruSize ==
    /\ lru_last' = LruLast("Size", 0, TRUE, Cardinality(lru_hash))
    /\ UNCHANGED <<lru_lst, lru_hash, lru_rank>>


(***************************************************************************)
(* Extendible hash table (hash/extendible_hash.cpp).                       *)
(* Every public operation runs under the table's mutex, so each is one     *)
(* step.  Keys are integers and std::hash of an integer is the integer     *)
(* itself.  Buckets are shared objects: the directory holds bucket         *)
(* identities, and a bucket no slot refers to any more is freed.           *)
(***************************************************************************)
\* Keys are 0..MaxHashKey.
MaxHashKey == 4
\* Values are 1..MaxHashVal.
MaxHashVal == 2
\* The constructor argument is one of 1..MaxBucketSize.
MaxBucketSize == 2
\* Splits of one Insert call that are followed; the while loop of the code
\* has no bound of its own.
MaxSplit == 4

HashKeys == 0..MaxHashKey

HashVals == 1..MaxHashVal

BucketSizes == 1..MaxBucketSize

\* A map without entries.
NoContents == [k \in {} |-> 0]

\* A bucket identity whose object has been released.
Freed == [localDepth |-> -1, contents |-> NoContents]

VARIABLES
    bucketSizeLimit,   \* capacity of a bucket
    globalDepth,       \* number of hash bits the directory uses
    bucketDirectory,   \* slot (0 .. 2^globalDepth - 1) -> bucket identity
    hs_buckets,        \* bucket identity -> [localDepth, contents]
    hs_status,         \* "ok", or "hang" once an Insert never returns
    hs_map,            \* per key the value of the latest Insert, 0 after Remove or never inserted
    hs_last            \* the last call and what it returned

hashVars == <<bucketSizeLimit, globalDepth, bucketDirectory, hs_buckets,
              hs_status, hs_map, hs_last>>

HsLast(op, key, ret, value) == [op |-> op, key |-> key, ret |-> ret, value |-> value]

\* The table as one value: directory, buckets and depth.
Table(depth, directory, buckets) ==
    [globalDepth |-> depth, bucketDirectory |-> directory, buckets |-> buckets]

\* Bucket(depth): an empty bucket of the given local depth.
Bucket(depth) == [localDepth |-> depth, contents |-> NoContents]

\* The constructor: depth 0 and one empty bucket in slot 0.
ExtendibleHash(size) ==
    /\ bucketSizeLimit = size
    /\ globalDepth = 0
    /\ bucketDirectory = [i \in {0} |-> 1]
    /\ hs_buckets = <<Bucket(0)>>
    /\ hs_status = "ok"
    /\ hs_map = [k \in HashKeys |-> 0]
    /\ hs_last = HsLast("none", 0, FALSE, 0)

InitHash == ExtendibleHash(MaxBucketSize)

HashKey(key) == key

\* hashKey & ((1 << globalDepth) - 1)
getBucketIndex(h, hashKey) == hashKey % (2 ^ h.globalDepth)

\* The identity of the bucket the key's slot refers to.
getBucket(h, key) == h.bucketDirectory[getBucketIndex(h, HashKey(key))]

\* x & mask, for a mask of one bit.
BitSet(x, mask) == (x \div mask) % 2 = 1

\* contents.find(key) != contents.end()
Contains(contents, key) == key \in DOMAIN contents

\* contents[key] = value
Put(contents, key, value) ==
    [k \in DOMAIN contents \cup {key} |-> IF k = key THEN value ELSE contents[k]]

\* contents.erase(key)
Erase(contents, key) == [k \in DOMAIN contents \ {key} |-> contents[k]]

GoesToB_Never(hash, mask) == FALSE

\* The items of the split bucket that go to the new bucket b are those whose
\* hash has the mask bit set, the others go to a.
GoesToB(hash, mask) == BitSet(hash, mask)

Part(contents, mask, toB) ==
    [k \in {x \in DOMAIN contents : GoesToB(HashKey(x), mask) = toB} |-> contents[k]]

\* Lines 95-101: the directory is doubled by appending a copy of itself.
DoubleDirectory(h) ==
    Table(h.globalDepth + 1,
          [i \in 0..(2 ^ (h.globalDepth + 1) - 1) |->
              h.bucketDirectory[i % (2 ^ h.globalDepth)]],
          h.buckets)

\* Lines 102-122: the full bucket is replaced by two buckets of the next
\* local depth; every slot that referred to it is rebound by its mask bit.
SplitBucket(h, target) ==
    With(2 ^ h.buckets[target].localDepth, LAMBDA mask :
    With(Len(h.buckets) + 1, LAMBDA a :
    With(Len(h.buckets) + 2, LAMBDA b :
        Table(h.globalDepth,
              [i \in DOMAIN h.bucketDirectory |->
                  IF h.bucketDirectory[i] = target
                  THEN (IF BitSet(i, mask) THEN b ELSE a)
                  ELSE h.bucketDirectory[i]],
              [h.buckets EXCEPT ![target] = Freed]
                  \o << [localDepth |-> h.buckets[target].localDepth + 1,
                         contents |-> Part(h.buckets[target].contents, mask, FALSE)],
                        [localDepth |-> h.buckets[target].localDepth + 1,
                         contents |-> Part(h.buckets[target].contents, mask, TRUE)] >>))))

\* One iteration of the while loop of Insert.
SplitOnce(h, target) ==
    IF h.buckets[target].localDepth = h.globalDepth
    THEN SplitBucket(DoubleDirectory(h), target)
    ELSE SplitBucket(h, target)

Full(h, limit, target) == Cardinality(DOMAIN h.buckets[target].contents) = limit

\* Lines 92-127: split while the key's bucket is full, then store the pair.
\* The result is the table, or Unfinished when the loop is still running
\* after MaxSplit iterations.
Unfinished == Table(-1, NoContents, <<>>)

RECURSIVE InsertLoop(_, _, _, _, _)
InsertLoop(h, limit, key, value, fuel) ==
    IF Full(h, limit, getBucket(h, key))
    THEN IF fuel = 0 THEN Unfinished
         ELSE InsertLoop(SplitOnce(h, getBucket(h, key)), limit, key, value, fuel - 1)
    ELSE Table(h.globalDepth, h.bucketDirectory,
               [h.buckets EXCEPT ![getBucket(h, key)].contents = Put(@, key, value)])

ThisTable == Table(globalDepth, bucketDirectory, hs_buckets)

SetTable(h) ==
    /\ globalDepth' = h.globalDepth
    /\ bucketDirectory' = h.bucketDirectory
    /\ hs_buckets' = h.buckets

\* Find as a function of the table: <<found, value>>.
FindIn(h, key) ==
    IF Contains(h.buckets[getBucket(h, key)].contents, key)
    THEN <<TRUE, h.buckets[getBucket(h, key)].contents[key]>>
    ELSE <<FALSE, 0>>

HashInsertDone(key, value, h) ==
    IF h.globalDepth < 0
    THEN /\ hs_status' = "hang"
         /\ hs_last' = HsLast("Insert", key, FALSE, value)
         /\ UNCHANGED <<globalDepth, bucketDirectory, hs_buckets>>
    ELSE /\ SetTable(h)
         /\ hs_last' = HsLast("Insert", key, TRUE, value)
         /\ UNCHANGED hs_status

HashInsert(key, value) ==
    /\ hs_status = "ok"
    /\ hs_map' = [hs_map EXCEPT ![key] = value]
    /\ HashInsertDone(key, value,
                      InsertLoop(ThisTable, bucketSizeLimit, key, value, MaxSplit))
    /\ UNCHANGED bucketSizeLimit

HashRemove(key) ==
    /\ hs_status = "ok"
    /\ hs_map' = [hs_map EXCEPT ![key] = 0]
    /\ IF ~Contains(hs_buckets[getBucket(ThisTable, key)].contents, key)
       THEN /\ hs_last' = HsLast("Remove", key, FALSE, 0)
            /\ UNCHANGED hs_buckets
       ELSE /\ hs_buckets' = [hs_buckets EXCEPT
                                ![getBucket(ThisTable, key)].contents = Erase(@, key)]
            /\ hs_last' = HsLast("Remove", key, TRUE, 0)
    /\ UNCHANGED <<bucketSizeLimit, globalDepth, bucketDirectory, hs_status>>

HashFind(key) ==
    /\ hs_status = "ok"
    /\ hs_last' = HsLast("Find", key, FindIn(ThisTable, key)[1], FindIn(ThisTable, key)[2])
    /\ UNCHANGED <<bucketSizeLimit, globalDepth, bucketDirectory, hs_buckets,
                   hs_status, hs_map>>


(***************************************************************************)
(* A GetValue that runs next to Insert and Remove calls of other threads.   *)
(* The reader's steps are the points where BPlusTree::GetValue and          *)
(* FindLeafPage(SEARCH) read root_page_id_ or wait for a page latch; a      *)
(* writer's call runs as one step, and only while the reader holds no read  *)
(* latch (a writer that meets a read latch waits for the reader).           *)
(***************************************************************************)
\* Keys 1..MaxReadKey are used next to the reader.
MaxReadKey == 4

ReadKeys == 1..MaxReadKey

VARIABLES rd_pc,      \* "idle", "lock" (before LockPage of rd_page), "done"
          rd_key,     \* the key of the GetValue
          rd_txn,     \* whether the call was given a transaction
          rd_page,    \* the page fetched and not latched yet
          rd_parent,  \* the page the reader came from, still pinned
          rd_held,    \* the page the reader holds a read latch on
          rd_expect,  \* the value stored for rd_key when the call began
          rd_ret      \* the return value and the value pushed to the result

readVars == <<rd_pc, rd_key, rd_txn, rd_page, rd_parent, rd_held, rd_expect, rd_ret>>

NoResult == [ret |-> "none", value |-> 0]

InitRead ==
    /\ rd_pc = "idle"
    /\ rd_key = 0
    /\ rd_txn = FALSE
    /\ rd_page = INVALID_PAGE_ID
    /\ rd_parent = INVALID_PAGE_ID
    /\ rd_held = INVALID_PAGE_ID
    /\ rd_expect = 0
    /\ rd_ret = NoResult

\* GetValue up to the first LockPage: IsEmpty is false, FindLeafPage(SEARCH)
\* reads root_page_id_ without LockRoot and fetches that page.
RdBegin(key, txn) ==
    /\ rd_pc = "idle"
    /\ bt_status = "ok"
    /\ bt_map[key] # 0
    /\ root_page_id_ # INVALID_PAGE_ID
    /\ rd_pc' = "lock"
    /\ rd_key' = key
    /\ rd_txn' = txn
    /\ rd_page' = root_page_id_
    /\ rd_parent' = INVALID_PAGE_ID
    /\ rd_held' = INVALID_PAGE_ID
    /\ rd_expect' = bt_map[key]
    /\ rd_ret' = NoResult
    /\ bt_pin' = [bt_pin EXCEPT ![root_page_id_] = @ + 1]
    /\ UNCHANGED <<root_page_id_, bt_pages, bt_wlatch, bt_root_latch, bt_page_set,
                   bt_next_page_id, bt_header, bt_status, bt_map, bt_last>>

\* The pin counts after UnpinPage of the page the reader came from.
RdUnpinParent(pin) ==
    IF rd_parent = INVALID_PAGE_ID THEN pin ELSE [pin EXCEPT ![rd_parent] = @ - 1]

\* LockPage(SEARCH) obtains the read latch of rd_page; with a transaction
\* UnlockParentPage then releases the parent; the parent is unpinned. On an
\* internal page the child is looked up, the page is unlatched at once when
\* there is no transaction, and the child is fetched. On a leaf GetValue
\* looks the key up, unlatches, unpins and returns.
RdLockPage ==
    /\ rd_pc = "lock"
    /\ bt_wlatch[rd_page] = FALSE
    /\ IF bt_pages[rd_page].page_type = "INTERNAL"
       THEN /\ rd_pc' = "lock"
            /\ rd_page' = InternalLookup(bt_pages[rd_page].array, rd_key)
            /\ rd_parent' = rd_page
            /\ rd_held' = IF rd_txn THEN rd_page ELSE INVALID_PAGE_ID
            /\ bt_pin' = [RdUnpinParent(bt_pin) EXCEPT
                             ![InternalLookup(bt_pages[rd_page].array, rd_key)] = @ + 1]
            /\ UNCHANGED rd_ret
       ELSE /\ rd_pc' = "done"
            /\ rd_page' = INVALID_PAGE_ID
            /\ rd_parent' = INVALID_PAGE_ID
            /\ rd_held' = INVALID_PAGE_ID
            /\ bt_pin' = [RdUnpinParent(bt_pin) EXCEPT ![rd_page] = @ - 1]
            /\ rd_ret' = With(LeafLookup(bt_pages[rd_page].array, rd_key), LAMBDA l :
                              [ret |-> IF l.found THEN "true" ELSE "false",
                               value |-> l.value])
    /\ UNCHANGED <<rd_key, rd_txn, rd_expect>>
    /\ UNCHANGED <<root_page_id_, bt_pages, bt_wlatch, bt_root_latch, bt_page_set,
                   bt_next_page_id, bt_header, bt_status, bt_map, bt_last>>

\* The caller has the result; the thread may call again.
RdReturn ==
    /\ rd_pc = "done"
    /\ rd_pc' = "idle"
    /\ rd_ret' = NoResult
    /\ rd_key' = 0
    /\ rd_txn' = FALSE
    /\ rd_expect' = 0
    /\ UNCHANGED <<rd_page, rd_parent, rd_held>>
    /\ UNCHANGED treeVars

\* A writer's call may run: the reader holds no read latch, and while the
\* reader is in its call the writers leave its key alone.
WriterMayRun(key) ==
    /\ rd_held = INVALID_PAGE_ID
    /\ rd_pc = "lock" => key # rd_key

(***************************************************************************)
(* Specifications                                                          *)
(***************************************************************************)
vars == <<lockVars, bpmVars, treeVars, recVars, logVars, insVars, hashVars, lruVars, readVars>>

\* Everything but the tree and the hash table.
InitOther ==
    InitLock /\ InitBPM /\ InitRecovery /\ InitLog /\ InitInsert /\ InitLru /\ InitRead

Init == InitOther /\ InitTree /\ InitHash

\* The lock manager stays idle in its strict configuration.
InitIdleLock == Init /\ strict_2PL_ = TRUE

notLock == <<bpmVars, treeVars, recVars, logVars, insVars, hashVars, lruVars, readVars>>

notBPM == <<lockVars, treeVars, recVars, logVars, insVars, hashVars, lruVars, readVars>>

notTree == <<lockVars, bpmVars, recVars, logVars, insVars, hashVars, lruVars, readVars>>

notRecovery == <<lockVars, bpmVars, treeVars, logVars, insVars, hashVars, lruVars, readVars>>

notLog == <<lockVars, treeVars, recVars, insVars, hashVars, lruVars, lruVars, readVars>>

notInsert == <<lockVars, bpmVars, recVars, logVars, hashVars, lruVars, readVars>>

notHash == <<lockVars, bpmVars, treeVars, recVars, logVars, insVars, lruVars, readVars>>

notRead == <<lockVars, bpmVars, recVars, logVars, insVars, hashVars, lruVars>>

notLru == <<lockVars, bpmVars, treeVars, recVars, logVars, insVars, hashVars, readVars>>

NextLockSX ==
    \/ \E t \in Txns, r \in Rids : LockShared(t, r) /\ UNCHANGED notLock
    \/ \E t \in Txns, r \in Rids : LockExclusive(t, r) /\ UNCHANGED notLock
    \/ \E t \in Txns, r \in Rids : Unlock(t, r) /\ UNCHANGED notLock
    \/ \E t \in Txns : Wake(t) /\ UNCHANGED notLock
    \/ \E t \in Txns : SpuriousWake(t) /\ UNCHANGED notLock
    \/ \E t \in Txns : TxnCommit(t) /\ UNCHANGED notLock

NextLock ==
    \/ NextLockSX
    \/ \E t \in Txns, r \in Rids : LockUpgrade(t, r) /\ UNCHANGED notLock

SpecLockSX == Init /\ [][NextLockSX]_vars

SpecLock == Init /\ [][NextLock]_vars

\* A woken waiter is scheduled again and rechecks its predicate.
FairSpecLockSX == SpecLockSX /\ \A t \in Txns : WF_vars(Wake(t) /\ UNCHANGED notLock)

NextBPM ==
    \/ \E p \in PageIds \cup {INVALID_PAGE_ID} :
          p < disk_next_page_id /\ FetchPage(p) /\ UNCHANGED notBPM
    \/ NewPage /\ UNCHANGED notBPM
    \/ \E p \in PageIds, d \in BOOLEAN :
          p < disk_next_page_id /\ UnpinPage(p, d) /\ UNCHANGED notBPM
    \/ \E p \in PageIds : p < disk_next_page_id /\ FlushPage(p) /\ UNCHANGED notBPM
    \/ \E p \in PageIds : p < disk_next_page_id /\ DeletePage(p) /\ UNCHANGED notBPM
    \/ \E p \in PageIds : WritePageData(p) /\ UNCHANGED notBPM
    \/ FlushLogRound /\ UNCHANGED notBPM

SpecBPM == InitIdleLock /\ [][NextBPM]_vars

NextTree ==
    \/ \E k \in Keys, v \in Vals : BtInsert(k, v) /\ UNCHANGED notTree
    \/ \E k \in Keys : BtRemove(k) /\ UNCHANGED notTree
    \/ \E k \in Keys : BtGetValue(k) /\ UNCHANGED notTree

\* Logging is off while the index is exercised.
InitIdleLog == InitIdleLock /\ ENABLE_LOGGING = FALSE

SpecTree == InitIdleLog /\ [][NextTree]_vars

\* Inserts and removes of the keys 1..MaxScanKey, and scans.
NextScan ==
    \/ \E k \in ScanKeys, v \in Vals : BtInsert(k, v) /\ UNCHANGED notTree
    \/ \E k \in ScanKeys : BtRemove(k) /\ UNCHANGED notTree
    \/ BtBegin /\ UNCHANGED notTree
    \/ \E k \in Keys : BtBeginKey(k) /\ UNCHANGED notTree

SpecScan == InitIdleLog /\ [][NextScan]_vars

NextInsert ==
    \/ \E t \in InsertThreads, k \in Keys, v \in Vals : CiCall(t, k, v) /\ UNCHANGED notInsert
    \/ \E t \in InsertThreads : CiTestEmpty(t) /\ UNCHANGED notInsert
    \/ \E t \in InsertThreads : CiNewPage(t) /\ UNCHANGED notInsert
    \/ \E t \in InsertThreads : CiInitRoot(t) /\ UNCHANGED notInsert
    \/ \E t \in InsertThreads : CiLockRoot(t) /\ UNCHANGED notInsert
    \/ \E t \in InsertThreads : CiFindLeaf(t) /\ UNCHANGED notInsert
    \/ \E t \in InsertThreads : CiInsertAtLeaf(t) /\ UNCHANGED notInsert
    \/ \E k \in Keys : CiGetValue(k) /\ UNCHANGED notTree

SpecInsert == InitIdleLog /\ [][NextInsert]_vars

NextRecovery ==
    \/ \E t \in RcTxns : RunBegin(t) /\ UNCHANGED notRecovery
    \/ \E t \in RcTxns, p \in RcPages, v \in Tuples :
          RunInsert(t, p, v) /\ UNCHANGED notRecovery
    \/ \E t \in RcTxns : RunCommit(t) /\ UNCHANGED notRecovery
    \/ \E p \in RcPages : RunWritePage(p) /\ UNCHANGED notRecovery
    \/ Crash /\ UNCHANGED notRecovery
    \/ Redo /\ UNCHANGED notRecovery
    \/ Undo /\ UNCHANGED notRecovery

\* ENABLE_LOGGING is the flag of the recovering process, on or off.
SpecRecovery == InitIdleLock /\ [][NextRecovery]_vars

NextLog ==
    \/ \E t \in LogThreads : AppendLogRecord(t) /\ UNCHANGED notLog
    \/ \E t \in LogThreads : AppendNotify(t) /\ UNCHANGED notLog
    \/ \E t \in LogThreads : AppendRelock(t) /\ UNCHANGED notLog
    \/ \E t \in LogThreads : ForceFlush(t) /\ UNCHANGED notLog
    \/ \E t \in LogThreads : ForceFlushNotify(t) /\ UNCHANGED notLog
    \/ \E t \in LogThreads : ForceFlushSpin(t) /\ UNCHANGED notLog
    \/ \E t \in LogThreads : ForceFlushReturn(t) /\ UNCHANGED notLog
    \/ \E status \in {"timeout", "no_timeout"} : FlusherWake(status) /\ UNCHANGED notLog
    \/ WriteLog /\ UNCHANGED notLog
    \/ SetPersistentLSN /\ UNCHANGED notLog

\* The flush thread is running: RunFlushThread has set ENABLE_LOGGING.
InitLogging == InitIdleLock /\ ENABLE_LOGGING = TRUE

SpecLog == InitLogging /\ [][NextLog]_vars

NextHash ==
    \/ \E k \in HashKeys, v \in HashVals : HashInsert(k, v) /\ UNCHANGED notHash
    \/ \E k \in HashKeys : HashRemove(k) /\ UNCHANGED notHash
    \/ \E k \in HashKeys : HashFind(k) /\ UNCHANGED notHash

\* A table constructed with any of the bucket sizes.
InitAnyHash ==
    /\ InitOther
    /\ InitTree
    /\ strict_2PL_ = TRUE
    /\ ENABLE_LOGGING = FALSE
    /\ \E size \in BucketSizes : ExtendibleHash(size)

SpecHash == InitAnyHash /\ [][NextHash]_vars

\* The calls of the buffer pool and the writes of pin holders, logging off.
NextPool ==
    \/ \E p \in PageIds \cup {INVALID_PAGE_ID} :
          p < disk_next_page_id /\ FetchPage(p) /\ UNCHANGED notBPM
    \/ NewPage /\ UNCHANGED notBPM
    \/ \E p \in PageIds, d \in BOOLEAN :
          p < disk_next_page_id /\ UnpinPage(p, d) /\ UNCHANGED notBPM
    \/ \E p \in PageIds : p < disk_next_page_id /\ FlushPage(p) /\ UNCHANGED notBPM
    \/ \E p \in PageIds : p < disk_next_page_id /\ DeletePage(p) /\ UNCHANGED notBPM
    \/ \E p \in PageIds : WritePageData(p) /\ UNCHANGED notBPM

SpecPool == InitIdleLog /\ [][NextPool]_vars

\* On the trees of InitTallTree: inserts of the keys above MaxKey and
\* removes of all keys.
NextTall ==
    \/ \E k \in NewKeys, v \in Vals : BtInsert(k, v) /\ UNCHANGED notTree
    \/ \E k \in TallKeys : BtRemove(k) /\ UNCHANGED notTree

InitTall ==
    /\ InitOther
    /\ InitHash
    /\ InitTallTree
    /\ strict_2PL_ = TRUE
    /\ ENABLE_LOGGING = FALSE

SpecTall == InitTall /\ [][NextTall]_vars

\* A reader thread next to writer calls on the keys 1..MaxReadKey.
NextRead ==
    \/ \E k \in ReadKeys, v \in Vals :
          WriterMayRun(k) /\ BtInsert(k, v) /\ UNCHANGED <<notRead, readVars>>
    \/ \E k \in ReadKeys :
          WriterMayRun(k) /\ BtRemove(k) /\ UNCHANGED <<notRead, readVars>>
    \/ \E k \in ReadKeys, txn \in BOOLEAN : RdBegin(k, txn) /\ UNCHANGED notRead
    \/ RdLockPage /\ UNCHANGED notRead
    \/ RdReturn /\ UNCHANGED notRead

SpecRead == InitIdleLog /\ [][NextRead]_vars

NextLru ==
    \/ \E v \in LruValues : LruInsert(v) /\ UNCHANGED notLru
    \/ LruVictim /\ UNCHANGED notLru
    \/ \E v \in LruValues : LruErase(v) /\ UNCHANGED notLru
    \/ LruSize /\ UNCHANGED notLru

SpecLru == InitIdleLog /\ [][NextLru]_vars

(***************************************************************************)
(* Lock manager: properties                                                *)
(***************************************************************************)
HeldItems(r) ==
    {i \in 1..Len(lock_table_[r].list_) : lock_table_[r].list_[i].held_}

\* C3: for every rid, when a transaction has been granted an exclusive lock
\* (LockExclusive returned true and the lock was not released), no other
\* transaction has a granted lock of any mode on that rid; seen in the
\* transactions' lock sets and in the held items of the rid's queue.
C3_ExclusiveExcludesOthers ==
    \A r \in Rids :
        /\ \A t1 \in Txns, t2 \in Txns :
              (t1 # t2 /\ r \in exclusive_lock_set[t1])
                 => r \notin shared_lock_set[t2] \cup exclusive_lock_set[t2]
        /\ \A i \in HeldItems(r), j \in HeldItems(r) :
              (i # j) => /\ lock_table_[r].list_[i].mode_ = "SHARED"
                         /\ lock_table_[r].list_[j].mode_ = "SHARED"

\* C3 witness: an exclusive lock is granted on a rid while a request of
\* another transaction is blocked on the same rid.
C3_Witness ==
    \E r \in Rids, t1 \in Txns, t2 \in Txns :
        /\ t1 # t2
        /\ r \in exclusive_lock_set[t1]
        /\ lk_pc[t2] = "wait"
        /\ lk_req[t2].rid = r

\* C4: wait-die. A LockShared / LockExclusive request that conflicts with the
\* current holders and comes from a transaction younger than the oldest holder
\* is aborted, gets false and is not queued; a request blocks only when the
\* requester is older than every holder.
C4_WaitDie ==
    (/\ lk_last.op \in {"LockShared", "LockExclusive"}
     /\ lk_last.pre = "GROWING"
     /\ lk_last.conflict)
    => /\ (lk_last.tid > SetMin(lk_last.holders))
             => /\ lk_last.ret = "false"
                /\ txn_state[lk_last.tid] = "ABORTED"
                /\ ~InList(lk_last.rid, lk_last.tid)
       /\ (lk_last.ret = "blocked")
             => \A h \in lk_last.holders : lk_last.tid < h

\* C8: under strict 2PL, Unlock by a COMMITTED or ABORTED transaction releases
\* the lock: the entry leaves the queue, the rid leaves the transaction's lock
\* sets, and the waiters are notified.
C8_StrictUnlockReleases ==
    (/\ lk_last.op = "Unlock"
     /\ strict_2PL_
     /\ lk_last.pre \in {"COMMITTED", "ABORTED"})
    => /\ ~InList(lk_last.rid, lk_last.tid)
       /\ lk_last.rid \notin shared_lock_set[lk_last.tid] \cup exclusive_lock_set[lk_last.tid]
       /\ \A w \in Txns : lk_pc[w] = "wait" => lk_notified[w]

\* The items queued ahead of the blocked request of t all belong to
\* transactions that have called Unlock on that rid.
AllAheadUnlocked(t) ==
    LET r    == lk_req[t].rid
        list == lock_table_[r].list_
        pos  == SetMin({i \in 1..Len(list) : list[i].tid_ = t} \cup {Len(list) + 1})
    IN  \A i \in 1..(pos - 1) : list[i].tid_ \in lk_unlocked[r]

\* C9: a blocked lock request does not stay blocked for ever once every
\* transaction holding or queued ahead of it on that rid has unlocked: it is
\* eventually granted.
C9_BlockedEventuallyGranted ==
    \A t \in Txns : []<>(~(lk_pc[t] = "wait" /\ AllAheadUnlocked(t)))

\* C10: when LockUpgrade returns true the transaction holds the rid
\* exclusively: no other transaction holds a granted lock on it and the
\* transaction's item in the queue is an EXCLUSIVE item marked held.
C10_UpgradeHoldsExclusive ==
    (lk_last.op = "LockUpgrade" /\ lk_last.ret = "true")
    => /\ Holders(lk_last.rid, lk_last.tid) = {}
       /\ \E i \in 1..Len(lock_table_[lk_last.rid].list_) :
             /\ lock_table_[lk_last.rid].list_[i].tid_ = lk_last.tid
             /\ lock_table_[lk_last.rid].list_[i].mode_ = "EXCLUSIVE"
             /\ lock_table_[lk_last.rid].list_[i].held_

\* A call of LockShared, LockExclusive or LockUpgrade by t on r.
LockCall(t, r) == LockShared(t, r) \/ LockExclusive(t, r) \/ LockUpgrade(t, r)

\* C11: the two-phase rule without strict 2PL. The first Unlock of a GROWING
\* transaction makes it SHRINKING and no transaction ever returns to GROWING;
\* a lock call by a SHRINKING transaction sets it ABORTED, returns false and
\* leaves the lock table and the lock sets as they were; a lock call by an
\* ABORTED or COMMITTED transaction returns false and changes neither the
\* state nor the lock table.
C11_TwoPhaseRule ==
    [][ \A t \in Txns, r \in Rids :
          /\ (~strict_2PL_ /\ txn_state[t] = "GROWING" /\ Unlock(t, r))
                => txn_state'[t] = "SHRINKING"
          /\ txn_state[t] # "GROWING" => txn_state'[t] # "GROWING"
          /\ (txn_state[t] = "SHRINKING" /\ LockCall(t, r))
                => /\ txn_state'[t] = "ABORTED"
                   /\ lk_last'.ret = "false"
                   /\ UNCHANGED <<lock_table_, shared_lock_set, exclusive_lock_set>>
          /\ (txn_state[t] \in {"ABORTED", "COMMITTED"} /\ LockCall(t, r))
                => /\ lk_last'.ret = "false"
                   /\ UNCHANGED <<txn_state, lock_table_, shared_lock_set,
                                  exclusive_lock_set>>
      ]_vars

\* A transaction that had unlocked asked for a lock and was aborted.
C11_Witness ==
    /\ ~strict_2PL_
    /\ lk_last.op \in {"LockShared", "LockExclusive", "LockUpgrade"}
    /\ lk_last.pre = "SHRINKING"
    /\ lk_last.ret = "false"
    /\ txn_state[lk_last.tid] = "ABORTED"
    /\ lk_last.tid \in lk_unlocked[lk_last.rid]

\* C12: under strict 2PL an Unlock by a GROWING or SHRINKING transaction
\* sets it ABORTED, returns false and releases nothing: the queue of the rid
\* and the lock sets stay as they were.
C12_StrictUnlockAborts ==
    [][ \A t \in Txns, r \in Rids :
          (strict_2PL_ /\ txn_state[t] \in {"GROWING", "SHRINKING"} /\ Unlock(t, r))
              => /\ txn_state'[t] = "ABORTED"
                 /\ lk_last'.ret = "false"
                 /\ UNCHANGED <<lock_table_, shared_lock_set, exclusive_lock_set>>
      ]_vars

\* A running transaction called Unlock under strict 2PL and still holds.
C12_Witness ==
    /\ strict_2PL_
    /\ lk_last.op = "Unlock"
    /\ lk_last.pre = "GROWING"
    /\ lk_last.ret = "false"
    /\ txn_state[lk_last.tid] = "ABORTED"
    /\ InList(lk_last.rid, lk_last.tid)
    /\ lk_last.rid \in shared_lock_set[lk_last.tid] \cup exclusive_lock_set[lk_last.tid]

(***************************************************************************)
(* Buffer pool manager: properties                                         *)
(***************************************************************************)
\* C1: write-ahead logging. Whenever FetchPage, NewPage or FlushPage writes a
\* dirty page to disk while logging is enabled, the log is persistent at
\* least up to the LSN of the page at the moment of the write. Only pages
\* that carry a logged change (data = 1) are counted, so that the LSN 0 of a
\* freshly zeroed page is not taken for the LSN of a log record.
C1_WriteAheadLog ==
    (bpm_write.wrote /\ bpm_write.dirty /\ bpm_write.logging /\ bpm_write.data = 1)
        => bpm_write.persistent >= bpm_write.lsn

AllPinned == \A f \in Frames : pages_[f].pin_count_ > 0

\* C6: a frame with pin count above 0 is never chosen for eviction: across
\* every buffer pool call its page stays in the same frame with the same
\* bytes (only the pin holder's own write changes them); and when the free
\* list is empty and every frame is pinned, FetchPage of a non-resident page
\* and NewPage return nullptr and change nothing.
C6_PinnedNeverEvicted ==
    [][ /\ \A f \in Frames :
              (pages_[f].pin_count_ > 0 /\ ~(\E p \in PageIds : WritePageData(p)))
                  => /\ pages_'[f].page_id_ = pages_[f].page_id_
                     /\ pages_'[f].bytes = pages_[f].bytes
                     /\ page_table_'[pages_[f].page_id_] = f
        /\ (/\ AllPinned
            /\ free_list_ = <<>>
            /\ \/ NewPage
               \/ \E p \in PageIds : ~Resident(p) /\ FetchPage(p))
              => /\ bpm_last'.ret = NoFrame
                 /\ UNCHANGED <<pages_, page_table_, replacer_, free_list_,
                                disk_pages, disk_next_page_id>>
      ]_vars

\* A call asked for a frame while every frame was pinned, and got nullptr.
C6_Witness ==
    /\ AllPinned
    /\ free_list_ = <<>>
    /\ bpm_last.ret = NoFrame
    /\ \/ bpm_last.op = "NewPage"
       \/ bpm_last.op = "FetchPage" /\ bpm_last.page_id \in PageIds
\* The frames that hold a page nobody has pinned.
Unpinned == {f \in Frames : pages_[f].page_id_ # INVALID_PAGE_ID /\ pages_[f].pin_count_ = 0}

\* The step is a buffer pool call named op (the flush thread's round leaves
\* the pool and bpm_last as they are).
BpmCall(op) ==
    /\ bpm_last'.op = op
    /\ <<pages_, page_table_, replacer_, free_list_, bpm_last, bpm_write>>'
          # <<pages_, page_table_, replacer_, free_list_, bpm_last, bpm_write>>

\* A call that has to find a frame: NewPage, or FetchPage of a page that is
\* not resident.
NeedsFrame ==
    \/ BpmCall("NewPage")
    \/ BpmCall("FetchPage") /\ bpm_last'.page_id \in PageIds /\ ~Resident(bpm_last'.page_id)

\* An UnpinPage that takes the pin count of frame f to 0.
DropsToZero(f) ==
    /\ BpmCall("UnpinPage")
    /\ Resident(bpm_last'.page_id)
    /\ page_table_[bpm_last'.page_id] = f
    /\ pages_[f].pin_count_ = 1

\* C23: FetchPage of a non-resident page and NewPage take the frame at the
\* head of the free list whenever it is non-empty and then evict nothing;
\* with an empty free list they evict the unpinned frame whose pin count
\* dropped to 0 least recently, and the evicted page id leaves the page
\* table. The replacer holds the unpinned frames, latest drop first.
C23_VictimOrder ==
    [][ /\ Range(replacer_) = Unpinned
        /\ (NeedsFrame /\ free_list_ # <<>>)
              => /\ bpm_last'.ret = Head(free_list_)
                 /\ free_list_' = Tail(free_list_)
                 /\ replacer_' = replacer_
                 /\ bpm_write' = NoWrite
                 /\ \A q \in PageIds : Resident(q) => page_table_'[q] = page_table_[q]
        /\ (NeedsFrame /\ free_list_ = <<>> /\ Unpinned # {})
              => /\ bpm_last'.ret = replacer_[Len(replacer_)]
                 /\ page_table_'[pages_[bpm_last'.ret].page_id_] = NoFrame
                 /\ replacer_' = SubSeq(replacer_, 1, Len(replacer_) - 1)
                 /\ \A q \in PageIds :
                        (Resident(q) /\ page_table_[q] # bpm_last'.ret)
                            => page_table_'[q] = page_table_[q]
        /\ \A f \in Frames :
              IF DropsToZero(f)
              THEN f \notin Range(replacer_) /\ replacer_' = <<f>> \o replacer_
              ELSE f \in Range(replacer_') => f \in Range(replacer_)
        /\ replacer_' = SelectSeq(replacer_, LAMBDA x : x \in Range(replacer_'))
           \/ \E f \in Frames : DropsToZero(f)
      ]_vars

\* NewPage evicted a page and wrote it back while a second unpinned frame
\* stayed in the replacer.
C23_Witness ==
    /\ bpm_last.op = "NewPage"
    /\ bpm_last.ret # NoFrame
    /\ bpm_write.wrote
    /\ replacer_ # <<>>

\* The pool's own state: frames, page table, replacer, free list and disk.
poolVars == <<pages_, page_table_, replacer_, free_list_, disk_pages, disk_next_page_id>>

\* C24: a dirty resident page stays dirty through every call that keeps it
\* resident, UnpinPage(id, false) and FetchPage hits included, except
\* FlushPage of that page; UnpinPage(id, true) leaves the page dirty; an
\* eviction writes the bytes of a dirty page to disk, so the image on disk is
\* the last content in memory; UnpinPage of a non-resident id returns false
\* and changes nothing.
C24_DirtyKept ==
    [][ /\ \A p \in PageIds :
              Resident(p) =>
                /\ (/\ pages_[page_table_[p]].is_dirty_
                    /\ page_table_'[p] = page_table_[p]
                    /\ ~(BpmCall("FlushPage") /\ bpm_last'.page_id = p))
                      => pages_'[page_table_[p]].is_dirty_
                /\ UnpinPage(p, TRUE) => pages_'[page_table_[p]].is_dirty_
                /\ (page_table_'[p] = NoFrame /\ ~BpmCall("DeletePage"))
                      => disk_pages'[p] = IF pages_[page_table_[p]].is_dirty_
                                          THEN pages_[page_table_[p]].bytes
                                          ELSE disk_pages[p]
        /\ (BpmCall("UnpinPage") /\ ~Resident(bpm_last'.page_id))
              => bpm_last'.ret = NoFrame /\ UNCHANGED poolVars
      ]_vars

\* An eviction wrote a page a pin holder had changed, and the disk holds the
\* changed bytes.
C24_Witness ==
    /\ bpm_last.op \in {"FetchPage", "NewPage"}
    /\ bpm_write.wrote
    /\ bpm_write.data = 1
    /\ ~Resident(bpm_write.page_id)
    /\ disk_pages[bpm_write.page_id].data = 1

\* The step is DeletePage(p).
Deletes(p) == BpmCall("DeletePage") /\ bpm_last'.page_id = p

\* C25: DeletePage(id) of a resident page with pin count other than 0
\* returns false, changes nothing and does not call DeallocatePage; of a
\* resident unpinned page it takes the page out of the page table and the
\* replacer, resets the frame and appends it to the free list; whenever the
\* page is not pinned it calls DeallocatePage(id) and returns true.
C25_DeletePage ==
    [][ \A p \in PageIds :
          Deletes(p) =>
            IF Resident(p) /\ pages_[page_table_[p]].pin_count_ # 0
            THEN /\ bpm_last'.ret = 0
                 /\ ~bpm_last'.deallocated
                 /\ UNCHANGED poolVars
            ELSE /\ bpm_last'.ret = 1
                 /\ bpm_last'.deallocated
                 /\ UNCHANGED <<disk_pages, disk_next_page_id>>
                 /\ IF Resident(p)
                    THEN /\ page_table_' = [page_table_ EXCEPT ![p] = NoFrame]
                         /\ page_table_[p] \notin Range(replacer_')
                         /\ Range(replacer_') = Range(replacer_) \ {page_table_[p]}
                         /\ pages_'[page_table_[p]].page_id_ = INVALID_PAGE_ID
                         /\ ~pages_'[page_table_[p]].is_dirty_
                         /\ pages_'[page_table_[p]].bytes = ZeroBytes
                         /\ \A f \in Frames \ {page_table_[p]} : pages_'[f] = pages_[f]
                         /\ free_list_' = Append(free_list_, page_table_[p])
                    ELSE UNCHANGED <<pages_, page_table_, replacer_, free_list_>>
      ]_vars

\* DeletePage of a pinned resident page was refused.
C25_Witness ==
    /\ bpm_last.op = "DeletePage"
    /\ bpm_last.ret = 0
    /\ Resident(bpm_last.page_id)
    /\ pages_[page_table_[bpm_last.page_id]].pin_count_ > 0
    /\ pages_[page_table_[bpm_last.page_id]].is_dirty_

\* The page ids the page table maps to frame f.
PagesIn(f) == {p \in PageIds : page_table_[p] = f}

InFreeList(f) ==
    /\ f \in Range(free_list_)
    /\ PagesIn(f) = {}
    /\ pages_[f].page_id_ = INVALID_PAGE_ID
    /\ pages_[f].pin_count_ = 0
    /\ ~pages_[f].is_dirty_

InUse(f) ==
    /\ PagesIn(f) = {pages_[f].page_id_}
    /\ pages_[f].pin_count_ > 0
    /\ f \notin Range(replacer_)

Evictable(f) ==
    /\ PagesIn(f) = {pages_[f].page_id_}
    /\ pages_[f].pin_count_ = 0
    /\ f \in Range(replacer_)

\* C27: every frame is in exactly one of three states: in the free list
\* with page id INVALID, pin count 0 and not dirty; in the page table, pinned
\* and not in the replacer; in the page table, unpinned and in the replacer.
\* No frame is twice in the free list or in the replacer.
C27_FrameStates ==
    /\ \A f \in Frames :
          /\ InFreeList(f) \/ InUse(f) \/ Evictable(f)
          /\ ~(InFreeList(f) /\ InUse(f))
          /\ ~(InFreeList(f) /\ Evictable(f))
          /\ ~(InUse(f) /\ Evictable(f))
          /\ f \in Range(free_list_) => InFreeList(f)
    /\ Len(free_list_) = Cardinality(Range(free_list_))
    /\ Len(replacer_) = Cardinality(Range(replacer_))

\* After evictions and a deletion: one frame free again, the other pinned.
C27_Witness ==
    /\ disk_next_page_id > PoolSize + 1
    /\ bpm_last.op = "DeletePage"
    /\ bpm_last.ret = 1
    /\ \E f \in Frames : InFreeList(f)
    /\ \E f \in Frames : InUse(f) /\ pages_[f].is_dirty_

\* C2: the tree behaves as a map with unique keys: a GetValue(k) made after
\* any sequence of Insert and Remove calls returns true with the value v
\* exactly when (k, v) was stored by a successful Insert and k has not been
\* removed since, and returns false otherwise.
C2_GetValueIsMap ==
    [][ \A k \in Keys :
            BtGetValue(k)
                => /\ bt_last'.ret = (IF bt_map[k] # 0 THEN "true" ELSE "false")
                   /\ bt_last'.ret = "true" => bt_last'.out = bt_map[k]
      ]_vars

\* C7: Insert(k, v) on a tree that already holds key k returns false and
\* leaves the stored pairs and the pages of the tree as they were.
C7_DuplicateInsertRejected ==
    [][ \A k \in Keys, v \in Vals :
            (bt_map[k] # 0 /\ BtInsert(k, v))
                => /\ bt_last'.ret = "false"
                   /\ UNCHANGED <<bt_pages, root_page_id_, bt_map>>
      ]_vars

\* The tree is as Insert(key, value) on a fresh tree leaves it.
AfterFirstInsert(key) ==
    /\ bt_next_page_id = 2
    /\ bt_status = "ok"
    /\ \E value \in Vals : Store = TreeInsert(FreshStore, key, value).s

\* C17: Insert(k, v) and then Remove(k) on a fresh tree leave an empty tree:
\* Remove returns, root_page_id_ is INVALID_PAGE_ID, and the former root page
\* is neither resident nor pinned (it has been deleted from the buffer pool).
C17_InsertRemoveEmpty ==
    [][ \A k \in Keys :
            (AfterFirstInsert(k) /\ BtRemove(k))
                => /\ bt_status' = "ok"
                   /\ root_page_id_' = INVALID_PAGE_ID
                   /\ \A p \in BtPageIds :
                         bt_pages'[p] = NoNode /\ bt_pin'[p] = 0
      ]_vars

\* C26: Remove(key) on an empty tree returns at once: it uses no null page,
\* takes no latch and no pin, and leaves the tree as it was.
C26_RemoveOnEmpty ==
    [][ \A k \in Keys :
            (root_page_id_ = INVALID_PAGE_ID /\ BtRemove(k))
                => /\ bt_status' = "ok"
                   /\ UNCHANGED <<bt_pages, bt_pin, bt_wlatch, bt_root_latch,
                                  bt_page_set, root_page_id_, bt_header>>
      ]_vars

\* The child page ids an internal page holds.
Children(p) ==
    IF bt_pages[p].page_type = "INTERNAL"
    THEN {bt_pages[p].array[i].second : i \in 1..Len(bt_pages[p].array)} \cap BtPageIds
    ELSE {}

\* The pages reachable from the pages of S through child pointers.
RECURSIVE Below(_, _)
Below(S, fuel) ==
    IF fuel = 0 \/ (UNION {Children(p) : p \in S}) \subseteq S THEN S
    ELSE Below(S \cup UNION {Children(p) : p \in S}, fuel - 1)

\* The nodes of the tree: everything reachable from the root.
LiveNodes ==
    IF root_page_id_ = INVALID_PAGE_ID THEN {} ELSE Below({root_page_id_}, MaxBtPage)

LiveLeaves == {p \in LiveNodes : bt_pages[p].page_type = "LEAF"}

\* C28: after every completed Insert or Remove every node other than the
\* root has min_size <= size <= max_size, min_size being the ceiling of
\* max_size / 2.
C28_NodeSizes ==
    bt_status = "ok"
    => \A p \in LiveNodes \ {root_page_id_} :
          /\ GetMinSize(bt_pages[p]) <= GetSize(bt_pages[p])
          /\ GetSize(bt_pages[p]) <= GetMaxSize(bt_pages[p])

RECURSIVE LeftMost(_, _)
LeftMost(p, fuel) ==
    IF fuel = 0 \/ p \notin BtPageIds THEN INVALID_PAGE_ID
    ELSE IF bt_pages[p].page_type = "INTERNAL"
    THEN LeftMost(bt_pages[p].array[1].second, fuel - 1)
    ELSE p

\* The pages on the chain of next_page_id from page p on.
RECURSIVE Chain(_, _)
Chain(p, fuel) ==
    IF fuel = 0 \/ p \notin BtPageIds THEN <<>>
    ELSE <<p>> \o Chain(bt_pages[p].next_page_id_, fuel - 1)

LeafChain ==
    IF root_page_id_ = INVALID_PAGE_ID THEN <<>>
    ELSE Chain(LeftMost(root_page_id_, MaxBtPage), MaxBtPage + 1)

\* C30: after every completed Insert or Remove the chain of next_page_id
\* from the leftmost leaf ends at INVALID, holds every live leaf exactly
\* once and nothing else, and the last key of each leaf is smaller than the
\* first key of the next one.
C30_LeafChain ==
    bt_status = "ok"
    => /\ Len(LeafChain) <= MaxBtPage
       /\ Range(LeafChain) = LiveLeaves
       /\ Len(LeafChain) = Cardinality(LiveLeaves)
       /\ \A i \in 1..(Len(LeafChain) - 1) :
             /\ bt_pages[LeafChain[i]].array # <<>>
             /\ bt_pages[LeafChain[i + 1]].array # <<>>
             /\ bt_pages[LeafChain[i]].array[Len(bt_pages[LeafChain[i]].array)].first
                  < bt_pages[LeafChain[i + 1]].array[1].first

\* A Remove(2) on the tree with the keys 1..MaxKey returned: the leaf of
\* key 2, in the middle of the chain, was merged into the leaf before it
\* and deleted, and the chain goes on with the leaf that followed it.
C30_Witness ==
    /\ bt_status = "ok"
    /\ bt_last.op = "Remove"
    /\ bt_pages = TreeRemove(Grown(MaxKey), 2).pg
    /\ Len(LeafChain) + 1
         = Cardinality({p \in BtPageIds : Grown(MaxKey).pg[p].page_type = "LEAF"})
    /\ \E p \in BtPageIds : p < bt_next_page_id /\ bt_pages[p].page_type = "INVALID"

\* The calling operation holds no page latch and no root latch, and the
\* page set of its transaction is empty.
NoLatchHeld ==
    /\ bt_root_latch = FALSE
    /\ \A p \in BtPageIds : bt_wlatch[p] = FALSE
    /\ bt_page_set = <<>>

\* C31: an Insert that starts with no latch held and returns (true or false)
\* holds no page latch and not the root latch afterwards.
C31_InsertReleasesLatches ==
    [][ (NoLatchHeld /\ bt_last'.op = "Insert" /\ bt_status' = "ok")
            => (bt_root_latch' = FALSE /\ \A p \in BtPageIds : bt_wlatch'[p] = FALSE)
      ]_vars

\* C32: a Remove on a tree that is not empty, started with no latch held,
\* holds no page latch and not the root latch when it returns.
C32_RemoveReleasesLatches ==
    [][ (NoLatchHeld /\ root_page_id_ # INVALID_PAGE_ID
            /\ bt_last'.op = "Remove" /\ bt_status' = "ok")
            => (bt_root_latch' = FALSE /\ \A p \in BtPageIds : bt_wlatch'[p] = FALSE)
      ]_vars

\* C33: after every GetValue, Insert or Remove that returned, with no
\* iterator alive, every page has pin count 0.
C33_PinBalance ==
    bt_status = "ok" => \A p \in BtPageIds : bt_pin[p] = 0

\* The pages that existed before the step and whose contents the step
\* changed.
Modified == {p \in BtPageIds : p < bt_next_page_id /\ bt_pages'[p] # bt_pages[p]}

\* The pages the descent of FindLeafPage for key and op leaves write-latched:
\* no other page latch is taken before the call has made its changes.
LatchedByDescent(key, op) ==
    {p \in BtPageIds : FindLeafPage(Store, key, TRUE, op).s.wl[p]}

\* C34: every page that an Insert or Remove changes is write-latched by the
\* call when it is changed (the call starts with no latch held, on a tree
\* that is not empty).
C34_WritersLatchWhatTheyModify ==
    [][ \A k \in Keys :
           /\ \A v \in Vals :
                 (NoLatchHeld /\ root_page_id_ # INVALID_PAGE_ID /\ BtInsert(k, v)
                     /\ bt_status' = "ok")
                    => Modified \subseteq LatchedByDescent(k, "INSERT")
           /\ (NoLatchHeld /\ root_page_id_ # INVALID_PAGE_ID /\ BtRemove(k)
                   /\ bt_status' = "ok")
                  => Modified \subseteq LatchedByDescent(k, "DELETE")
      ]_vars

\* C35: a GetValue(k) next to Inserts and Removes of other keys, with k
\* stored when it began and not removed since, returns true with k's value.
C35_ConcurrentGetValue ==
    rd_pc = "done" => (rd_ret.ret = "true" /\ rd_ret.value = rd_expect)

\* The stored pairs with a key of at least k, in ascending key order.
RECURSIVE PairsFrom(_)
PairsFrom(k) ==
    IF k > MaxKey THEN <<>>
    ELSE (IF bt_map[k] # 0 THEN <<Pair(k, bt_map[k])>> ELSE <<>>) \o PairsFrom(k + 1)

\* C18: a scan from Begin() to isEnd() returns, yields every stored pair
\* once in ascending key order, and the iterator holds exactly one pin, on
\* its current leaf, at every step.
C18_ScanYieldsAll ==
    [][ BtBegin
            => /\ bt_status' = "ok"
               /\ TreeBegin(Store).out = PairsFrom(1)
               /\ TreeBegin(Store).pinned
      ]_vars

\* C19: a scan from Begin(key) that runs to isEnd() yields exactly the
\* stored pairs with a key >= key in ascending order; in particular no item
\* is read at an index at or past the size of the leaf.
C19_ScanFromKey ==
    [][ \A k \in Keys :
            (BtBeginKey(k) /\ bt_status' = "ok")
                => /\ StaleItem \notin Range(TreeBeginKey(Store, k).out)
                   /\ TreeBeginKey(Store, k).out = PairsFrom(k)
      ]_vars

\* C20: of the threads that call Insert on the empty tree, one creates the
\* root leaf, with one NewPage and one header InsertRecord; when all calls
\* have returned, the root is that leaf and GetValue finds every key that
\* was inserted, and no thread is left waiting before that.
C20_OneRootCreated ==
    /\ bt_status = "ok"
    /\ bt_next_page_id <= 2
    /\ ci_hdr_inserts <= 1
    /\ Cardinality({t \in InsertThreads : ci_pc[t] \in {"new", "init"}}) <= 1
    /\ (\E t \in InsertThreads : ci_pc[t] = "done")
          => /\ bt_next_page_id = 2
             /\ ci_hdr_inserts = 1
             /\ root_page_id_ = 1
             /\ bt_header = 1
    /\ ~AllDone => ENABLED NextInsert
    /\ AllDone
          => /\ Cardinality({t \in InsertThreads : ci_ret[t] = "true"})
                    = Cardinality({ci_key[t] : t \in InsertThreads})
             /\ \A t \in InsertThreads :
                   /\ TreeGetValue(Store, ci_key[t], FALSE).ret = "true"
                   /\ TreeGetValue(Store, ci_key[t], FALSE).value = bt_map[ci_key[t]]
             /\ \A p \in BtPageIds : bt_pin[p] = 0 /\ ~bt_wlatch[p]
             /\ ~bt_root_latch

C20_Witness ==
    /\ AllDone
    /\ Cardinality({ci_key[t] : t \in InsertThreads}) = LeafMaxSize
    /\ bt_last.op = "GetValue"
    /\ bt_last.ret = "true"
    /\ GetSize(bt_pages[1]) = LeafMaxSize

(***************************************************************************)
(* Log recovery: properties                                                *)
(***************************************************************************)
\* C5: after Redo followed by Undo, every change logged by a transaction
\* with a COMMIT record is present in its table page, and every change
\* logged by a transaction with neither COMMIT nor ABORT is absent.
C5_RecoveryRestoresCommitted ==
    rc_phase = "recovered"
        => \A i \in DOMAIN rc_log :
               rc_log[i].type = "INSERT"
                   => /\ HasRecord(rc_log[i].txn, "COMMIT")
                            => rc_pages[rc_log[i].page].tuple = rc_log[i].tuple
                      /\ Running(rc_log[i].txn)
                            => rc_pages[rc_log[i].page].tuple # rc_log[i].tuple

(***************************************************************************)
(* Log manager: properties                                                 *)
(***************************************************************************)
\* The records WriteLog has still to write from the flush buffer.
PendingFlush == IF fl_pc = "write" THEN Prefix(flush_buffer_, flush_log_size) ELSE <<>>

\* Everything appended so far, in the order in which it reaches the file.
LogStream == log_file \o PendingFlush \o Prefix(log_buffer_, offset_)

\* C13: when ForceFlush returns, persistent_lsn_ is at least the largest LSN
\* assigned before the call and every record up to that LSN is in the log
\* file.
C13_ForceFlushCoversCall ==
    lg_last.op = "ForceFlush"
    => /\ lg_last.plsn >= lg_last.snap
       /\ lg_last.written

\* C14: no record with an LSN up to persistent_lsn_ is still in the log
\* buffer or waiting in the flush buffer for WriteLog.
C14_PersistentLsnWritten ==
    \A l \in 0..persistent_lsn_ :
        l \notin Range(PendingFlush) \cup Range(Prefix(log_buffer_, offset_))

\* C15: persistent_lsn_ never decreases and never exceeds next_lsn_ - 1.
C15_PersistentLsnMonotone ==
    /\ [](persistent_lsn_ <= next_lsn_ - 1)
    /\ [][persistent_lsn_' >= persistent_lsn_]_vars

C15_Witness ==
    /\ fl_pc = "wait"
    /\ persistent_lsn_ >= 1
    /\ persistent_lsn_ < next_lsn_ - 1
    /\ persistent_lsn_changed_

\* C16: AppendLogRecord hands out the LSNs 0, 1, 2, ... in the order of the
\* copies, and the file, the records being written and the log buffer hold
\* exactly the records appended so far, each once, in LSN order.
C16_RecordsInOrder ==
    /\ lg_last.op = "AppendLogRecord" => lg_last.lsn = next_lsn_ - 1
    /\ LogStream = [i \in 1..next_lsn_ |-> i - 1]

(***************************************************************************)
(* LRU replacer: properties                                                *)
(***************************************************************************)
\* The values an Insert tracked and no Victim or Erase took out since.
Tracked == {v \in LruValues : lru_rank[v] # 0}

\* What a call has to return and leave behind, by the kind of the call.
LruCallRight ==
    /\ lru_last'.op = "Insert" =>
          /\ lru_hash' = Tracked \cup {lru_last'.value}
          /\ lru_lst'[1] = lru_last'.value
    /\ lru_last'.op = "Victim" =>
          IF Tracked = {}
          THEN ~lru_last'.ret /\ lru_lst' = lru_lst /\ lru_hash' = lru_hash
          ELSE /\ lru_last'.ret
               /\ lru_rank[lru_last'.value] = 1
               /\ lru_hash' = Tracked \ {lru_last'.value}
    /\ lru_last'.op = "Erase" =>
          /\ lru_last'.ret = (lru_last'.value \in Tracked)
          /\ lru_hash' = Tracked \ {lru_last'.value}
    /\ lru_last'.op = "Size" =>
          /\ lru_last'.size = Cardinality(Tracked)
          /\ lru_lst' = lru_lst /\ lru_hash' = lru_hash

\* C22: Victim returns false on an empty replacer and otherwise takes out
\* the tracked value whose latest Insert is the oldest; Insert moves a
\* tracked value to the front without a second entry; Size() is the number
\* of distinct tracked values; Erase(x) returns true exactly when x was
\* tracked.
C22_LruOrder ==
    /\ [](/\ Len(lru_lst) = Cardinality(lru_hash)
          /\ Range(lru_lst) = lru_hash
          /\ lru_hash = Tracked)
    /\ [][LruCallRight]_vars

\* A value inserted again was moved, and the Victim after it took the
\* other one.
C22_Witness ==
    /\ lru_last.op = "Victim"
    /\ lru_last.ret
    /\ lru_lst # <<>>
    /\ lru_lst[Len(lru_lst)] < lru_last.value

(***************************************************************************)
(* Extendible hash table: properties                                       *)
(***************************************************************************)
\* What Find has to return for a key: the value of the latest Insert that
\* no Remove followed.
Expected(key) == IF hs_map[key] = 0 THEN <<FALSE, 0>> ELSE <<TRUE, hs_map[key]>>

\* C21: every Insert and Remove returns, and after any sequence of them
\* Find(k) returns (true, v) for the latest Insert(k, v) not followed by
\* Remove(k) and false for every other key.
C21_FindReturnsLatest ==
    /\ hs_status = "ok"
    /\ \A k \in HashKeys : FindIn(ThisTable, k) = Expected(k)
    /\ hs_last.op = "Find" => <<hs_last.ret, hs_last.value>> = Expected(hs_last.key)

\* The bucket identities the directory refers to.
Referenced == {bucketDirectory[i] : i \in DOMAIN bucketDirectory}

\* The shape of the table: 2^globalDepth slots, each referring to a live
\* bucket of local depth at most globalDepth with at most bucketSizeLimit
\* entries; the slots equal to a slot of a bucket in its low localDepth bits
\* refer to that bucket; each key lies in the bucket its hash addresses.
DirectoryShape ==
    /\ DOMAIN bucketDirectory = 0..(2 ^ globalDepth - 1)
    /\ \A i \in DOMAIN bucketDirectory :
          /\ bucketDirectory[i] \in 1..Len(hs_buckets)
          /\ hs_buckets[bucketDirectory[i]] # Freed
          /\ hs_buckets[bucketDirectory[i]].localDepth \in 0..globalDepth
          /\ Cardinality(DOMAIN hs_buckets[bucketDirectory[i]].contents) <= bucketSizeLimit
          /\ \A j \in DOMAIN bucketDirectory :
                (j % (2 ^ hs_buckets[bucketDirectory[i]].localDepth)
                    = i % (2 ^ hs_buckets[bucketDirectory[i]].localDepth))
                   => bucketDirectory[j] = bucketDirectory[i]
          /\ \A k \in DOMAIN hs_buckets[bucketDirectory[i]].contents :
                getBucket(ThisTable, k) = bucketDirectory[i]

\* C36: after any sequence of Insert and Remove calls the table has the
\* shape of DirectoryShape, and a Remove leaves the directory and the depth
\* as they were.
C36_DirectoryInvariant ==
    /\ []DirectoryShape
    /\ [][hs_last'.op = "Remove" => UNCHANGED <<globalDepth, bucketDirectory>>]_vars

\* A Remove emptied a bucket of a directory of depth 2 or more in which a
\* bucket of smaller local depth is shared by several slots.
C36_Witness ==
    /\ hs_status = "ok"
    /\ hs_last.op = "Remove"
    /\ hs_last.ret
    /\ globalDepth >= 2
    /\ \E b \in Referenced : hs_buckets[b].localDepth < globalDepth
    /\ \E b \in Referenced : DOMAIN hs_buckets[b].contents = {}

(***************************************************************************)
(* Log manager: the copy of AppendLogRecord                                *)
(***************************************************************************)
\* C37: the record of every AppendLogRecord that returned was copied where
\* it fitted, offset_ + size <= LOG_BUFFER_SIZE at the copy, and offset_
\* never passes the end of the buffer.
C37_CopyOnlyWhenItFits ==
    /\ lg_last.op = "AppendLogRecord" => lg_last.fit
    /\ offset_ <= LOG_BUFFER_SIZE

(***************************************************************************)
(* Lock manager: the oldest holder of a lock list                          *)
(***************************************************************************)
\* The transactions whose request on rid r is held.
HeldIds(r) ==
    {lock_table_[r].list_[i].tid_ :
        i \in {j \in 1..Len(lock_table_[r].list_) : lock_table_[r].list_[j].held_}}

\* C38: whenever the lock list of a rid has a held request, its oldest_ is
\* the smallest transaction id over the held requests.
C38_OldestIsMinHeld ==
    \A r \in Rids :
        (lock_table_[r].present /\ HeldIds(r) # {})
            => GetOldest(lock_table_[r]) = SetMin(HeldIds(r))

(***************************************************************************)
(* Log recovery: the table of active transactions and the pins             *)
(***************************************************************************)
\* C39: after Redo, active_txn_ holds exactly the transactions with a BEGIN
\* record and neither COMMIT nor ABORT, each with the LSN of the last record
\* the transaction wrote.
C39_ActiveTxnAfterRedo ==
    rc_phase = "redone"
        => \A t \in RcTxns :
               active_txn_[t] = IF Running(t) THEN PrevLsnOf(t) ELSE INVALID_LSN

\* The INSERT records of the log whose page is at or beyond them, which Redo
\* passes over.
SkippedByRedo(page) ==
    {i \in DOMAIN rc_log : /\ rc_log[i].type = "INSERT"
                           /\ rc_log[i].page = page
                           /\ rc_pages[page].lsn >= i - 1}

\* C40: after Redo and after Undo no table page is pinned, and a page whose
\* records Redo passes over keeps its contents.
C40_RecoveryPinBalance ==
    /\ [](rc_phase \in {"redone", "recovered"} => \A p \in RcPages : rc_pin[p] = 0)
    /\ [][ \A p \in RcPages :
              (Redo /\ SkippedByRedo(p) # {}) => rc_pages'[p] = rc_pages[p] ]_vars

================================================================================
